---------------------------- MODULE Spec2Model ----------------------------
(***************************************************************************)
(* Model of the validators of the SWARM RDS client:                        *)
(*   - VehicleProfileValidator (SWARMRDS/core/vehicle_profile_validator.py)*)
(*   - SWARM.validate_settings_file / validate_software_modules            *)
(*     (core/swarm.py)                                                     *)
(*                                                                         *)
(* A Python value is a record [t |-> type name, v |-> payload].  Numbers   *)
(* are carried in thousandths (30.0 is 30000, the int 2 is 2000), strings  *)
(* as strings, a dict as the sequence of its <<key, value>> items in       *)
(* insertion order, a list as the sequence of its elements.                *)
(***************************************************************************)
EXTENDS Integers, Sequences, FiniteSets, TLC

VARIABLES
    call,            \* the entry point that is run: "validate" (VehicleProfileValidator)
                     \* or "validate_settings_file" (SWARM)
    vp_profile,      \* json_data["Physics"] of the vehicle profile file
    vp_result,       \* outcome of VehicleProfileValidator.validate
    settings_file,   \* the settings document handed to validate_settings_file
    local,           \* SWARM._local: "unset", "True" or "False"
    descriptor_found, \* the capability descriptor file of the entry point can be opened
    supported_modules, \* the capability descriptor as validate_software_modules holds it
    pc,              \* position of validate_settings_file
    key_idx,         \* index of the top-level key the walk is at
    agent_idx,       \* index of the agent the walk is at
    section_idx,     \* index of the agent section the walk is at
    module_idx,      \* index of the software module the walk is at
    baro_name_bound, \* whether the local baro_name of validate_settings_file is bound
    result,          \* return value of validate_settings_file
    diag,            \* the diagnostic of the failure: [kind, at]
    examined,        \* the sections, agents and modules examined so far
    trajectory,      \* the trajectory handed to the trajectory validators
    trajectory_valid, \* their outcome: the value returned and the warnings printed
    message_id,      \* SWARMClient.message_id
    connected,       \* SWARMClient.connected
    request,         \* the last request of the client that has ended
    wait_pc,         \* position of wait_for_response_packet: "idle", "loop", "returned"
    wait_step,       \* what the last pass of its loop met
    received_header, \* its local received_header
    received_bytes,  \* the length of its local received_bytes
    total_bytes,     \* its local total_bytes
    last_message,    \* its local message, once decoded
    received_message, \* its local received_message, the value it returns
    mp_pc,           \* position of send_multipart_file: "idle", "sendall", "retry", "returned"
    chunk_idx,       \* the chunk its loop is at
    chunk_not_sent,  \* its local chunk_not_sent
    retries,         \* its local retries
    chunk_sends,     \* the times the retry loop has sent the chunk
    run_op,          \* the operation of SWARM that runs the simulation, or "none"
    run_pc,          \* its position
    settings_valid,  \* its local settings_valid
    network          \* what it has sent to the server so far, in order

vars == <<call, vp_profile, vp_result, settings_file, local, descriptor_found,
          supported_modules, pc, key_idx, agent_idx, section_idx, module_idx,
          baro_name_bound, result, diag, examined, trajectory, trajectory_valid,
          message_id, connected, request, wait_pc, wait_step, received_header,
          received_bytes, total_bytes, last_message, received_message,
          mp_pc, chunk_idx, chunk_not_sent, retries, chunk_sends,
          run_op, run_pc, settings_valid, network>>

(***************************************************************************)
(* Python values                                                           *)
(***************************************************************************)
PyInt(n) == [t |-> "int", v |-> n]

PyFloat(n) == [t |-> "float", v |-> n]

PyStr(s) == [t |-> "str", v |-> s]

PyBool(b) == [t |-> "bool", v |-> b]

PyDict(items) == [t |-> "dict", v |-> items]

PyList(elems) == [t |-> "list", v |-> elems]

PyNone == [t |-> "NoneType", v |-> << >>]

\* type(x).__name__
TypeName(x) == x.t

\* int, float and bool compare as numbers in Python
IsNumber(x) == x.t \in {"int", "float", "bool"}

Num(x) == IF x.t = "bool" THEN (IF x.v THEN 1000 ELSE 0) ELSE x.v

\* Python ==
PyEq(a, b) ==
    IF IsNumber(a) /\ IsNumber(b) THEN Num(a) = Num(b)
    ELSE a.t = b.t /\ a.v = b.v

\* Python "x in list"
PyIn(x, lst) == \E i \in 1..Len(lst) : PyEq(x, lst[i])

\* keys of a dict value, in insertion order
DictKeys(d) == [i \in 1..Len(d.v) |-> d.v[i][1]]

KeySet(d) == {d.v[i][1] : i \in 1..Len(d.v)}

\* d[k]: the value of the last item with key k
DictGet(d, k) ==
    LET idx == {i \in 1..Len(d.v) : d.v[i][1] = k}
    IN d.v[CHOOSE i \in idx : \A j \in idx : j <= i][2]

SeqToSet(s) == {s[i] : i \in 1..Len(s)}

(***************************************************************************)
(* VehicleProfileValidator                                                 *)
(***************************************************************************)
\* valid_params[self._vehicle_type] of SupportedVehiclePhysicsParameter.json
VPValidParams ==
    [ValidSubSections |-> <<"Frame">>,
     Mass   |-> [Type |-> "float", Min |-> 1000, Max |-> 3000],
     Blades |-> [Type |-> "int", Min |-> 1000, Max |-> 5000,
                 ValidEntries |-> <<PyInt(2000), PyInt(4000)>>],
     Name   |-> [Type |-> "str", ValidEntries |-> <<PyStr("*")>>],
     Mode   |-> [Type |-> "str", ValidEntries |-> <<PyStr("X"), PyStr("Plus")>>],
     Shape  |-> [Type |-> "str", ValidEntries |-> <<PyStr("Quad")>>,
                 ValidStrings |-> <<PyStr("Quad")>>],
     Frame  |-> [ValidSubSections |-> <<"Rotor">>,
                 ArmLength |-> [Type |-> "float", Min |-> 1000, Max |-> 2000],
                 Rotor |-> [Kv  |-> [Type |-> "int", Min |-> 1000, Max |-> 3000],
                            Tag |-> [Type |-> "str", ValidEntries |-> <<PyStr("*")>>]]]]

VPOk == [ret |-> "True", msg |-> "none"]

VPFail(kind) == [ret |-> "False", msg |-> kind]

\* an exception that leaves validate(): nothing in validate() catches it
VPRaise(kind) == [ret |-> "Raised", msg |-> kind]

\* the checks of _check_param_value with the range of a number looked at
\* before its type
VPCheckInfo_RangeFirst(param_value, param_info) ==
    IF "NotARule" \in DOMAIN param_info THEN VPRaise("TypeError")
    ELSE IF "Type" \notin DOMAIN param_info THEN VPRaise("KeyError")
    ELSE IF param_info.Type \in {"float", "int"}
            /\ IsNumber(param_value)
            /\ (Num(param_value) < param_info.Min \/ Num(param_value) > param_info.Max)
         THEN VPFail("Range")
    ELSE IF TypeName(param_value) # param_info.Type THEN VPFail("TypeMismatch")
    ELSE IF param_info.Type \in {"float", "int"}
            /\ "ValidEntries" \in DOMAIN param_info
            /\ ~PyIn(param_value, param_info.ValidEntries)
         THEN VPFail("NotValidEntry")
    ELSE IF param_info.Type = "str"
            /\ param_info.ValidEntries # <<PyStr("*")>>
            /\ ~PyIn(param_value, param_info.ValidEntries)
         THEN (IF "ValidStrings" \in DOMAIN param_info
               THEN VPFail("NotValidString")
               ELSE VPRaise("KeyError"))
    ELSE VPOk

\* the checks of _check_param_value once param_info is found
VPCheckInfo(param_value, param_info) ==
    IF "NotARule" \in DOMAIN param_info THEN VPRaise("TypeError")
    ELSE IF "Type" \notin DOMAIN param_info THEN VPRaise("KeyError")
    ELSE IF TypeName(param_value) # param_info.Type THEN VPFail("TypeMismatch")
    ELSE IF param_info.Type \in {"float", "int"}
            /\ (Num(param_value) < param_info.Min \/ Num(param_value) > param_info.Max)
         THEN VPFail("Range")
    ELSE IF param_info.Type \in {"float", "int"}
            /\ "ValidEntries" \in DOMAIN param_info
            /\ ~PyIn(param_value, param_info.ValidEntries)
         THEN VPFail("NotValidEntry")
    ELSE IF param_info.Type = "str"
            /\ param_info.ValidEntries # <<PyStr("*")>>
            /\ ~PyIn(param_value, param_info.ValidEntries)
         THEN (IF "ValidStrings" \in DOMAIN param_info
               THEN VPFail("NotValidString")
               ELSE VPRaise("KeyError"))
    ELSE VPOk

\* valid_params[...][name]; the entry under "ValidSubSections" is a list, which
\* cannot be indexed by "Type"
VPInfoAt(params, name) ==
    IF name = "ValidSubSections" THEN [NotARule |-> TRUE] ELSE params[name]

\* _check_param_value(param_name, param_value, valid_params, sub_param_name, sub_sub_param_name);
\* "None" stands for an argument left at its default
check_param_value(param_name, param_value, valid_params, sub_param_name, sub_sub_param_name) ==
    IF sub_param_name # "None" THEN
        IF sub_param_name \notin DOMAIN valid_params THEN VPFail("UnknownSubParam")
        ELSE IF sub_sub_param_name # "None" THEN
            IF sub_sub_param_name \notin DOMAIN valid_params[sub_param_name]
            THEN VPFail("UnknownSubSubParam")
            ELSE IF param_name \notin DOMAIN valid_params[sub_param_name][sub_sub_param_name]
            THEN VPFail("UnknownParam")
            ELSE VPCheckInfo(param_value,
                     VPInfoAt(valid_params[sub_param_name][sub_sub_param_name], param_name))
        ELSE
            IF param_name \notin DOMAIN valid_params[sub_param_name]
            THEN VPFail("UnknownParam")
            ELSE VPCheckInfo(param_value, VPInfoAt(valid_params[sub_param_name], param_name))
    ELSE
        IF param_name \notin DOMAIN valid_params THEN VPFail("UnknownParam")
        ELSE VPCheckInfo(param_value, VPInfoAt(valid_params, param_name))

\* the innermost loop of validate(): the parameters of a subsection of a subsection
RECURSIVE VPSubSubLoop(_, _, _, _, _)
VPSubSubLoop(items, i, valid_params, param_name, sub_param_name) ==
    IF i > Len(items) THEN VPOk
    ELSE LET r == check_param_value(items[i][1], items[i][2], valid_params,
                                    param_name, sub_param_name)
         IN IF r.ret # "True" THEN r
            ELSE VPSubSubLoop(items, i + 1, valid_params, param_name, sub_param_name)

\* the loop of validate() over the parameters of a subsection
RECURSIVE VPSubLoop(_, _, _, _)
VPSubLoop(items, i, valid_params, param_name) ==
    IF i > Len(items) THEN VPOk
    ELSE LET sub_param_name == items[i][1]
             sub_param_value == items[i][2]
             r == IF "ValidSubSections" \in DOMAIN valid_params[param_name]
                     /\ sub_param_name \in SeqToSet(valid_params[param_name].ValidSubSections)
                  THEN IF TypeName(sub_param_value) # "dict" THEN VPRaise("AttributeError")
                       ELSE VPSubSubLoop(sub_param_value.v, 1, valid_params,
                                         param_name, sub_param_name)
                  ELSE check_param_value(sub_param_name, sub_param_value, valid_params,
                                         param_name, "None")
         IN IF r.ret # "True" THEN r
            ELSE VPSubLoop(items, i + 1, valid_params, param_name)

\* the loop of validate() over json_data["Physics"]
RECURSIVE VPTopLoop(_, _, _)
VPTopLoop(items, i, valid_params) ==
    IF i > Len(items) THEN VPOk
    ELSE LET param_name == items[i][1]
             param_value == items[i][2]
             r == IF param_name \in SeqToSet(valid_params.ValidSubSections)
                  THEN IF TypeName(param_value) # "dict" THEN VPRaise("AttributeError")
                       ELSE VPSubLoop(param_value.v, 1, valid_params, param_name)
                  ELSE check_param_value(param_name, param_value, valid_params,
                                         "None", "None")
         IN IF r.ret # "True" THEN r
            ELSE VPTopLoop(items, i + 1, valid_params)

\* VehicleProfileValidator.validate with both files found
VPValidateProfile(physics) == VPTopLoop(physics, 1, VPValidParams)

(***************************************************************************)
(* The vehicle profiles the validator is run on                            *)
(***************************************************************************)
MaxVPParams == 2

\* the values tried for each top-level parameter name
VPScalars ==
    [Mass   |-> {PyFloat(1000), PyFloat(3000), PyFloat(999), PyFloat(3001),
                 PyInt(2000), PyInt(6000), PyStr("X")},
     Blades |-> {PyInt(2000), PyInt(3000), PyInt(6000), PyFloat(1000), PyStr("X")},
     Name   |-> {PyStr("X"), PyStr("Other"), PyInt(2000)},
     Mode   |-> {PyStr("X"), PyStr("Other"), PyFloat(1000)},
     Shape  |-> {PyStr("Quad"), PyStr("Other")},
     Bogus  |-> {PyFloat(1000), PyStr("X")},
     ValidSubSections |-> {PyStr("X")}]

VPTopNames == DOMAIN VPScalars

VPRotorItems ==
    {<<"Kv", x>> : x \in {PyInt(1000), PyInt(4000), PyStr("Other")}}
    \cup {<<"Tag", x>> : x \in {PyStr("Other"), PyInt(1000)}}
    \cup {<<"Bogus", PyInt(1000)>>}

VPFrameItems ==
    {<<"ArmLength", x>> : x \in {PyFloat(1000), PyFloat(2001), PyInt(2000)}}
    \cup {<<"Bogus", PyFloat(1000)>>}
    \cup {<<"Rotor", PyDict(<<it>>)>> : it \in VPRotorItems}
    \cup {<<"Rotor", PyFloat(1000)>>}

VPTopItems ==
    UNION {{<<n, x>> : x \in VPScalars[n]} : n \in VPTopNames}
    \cup {<<"Frame", PyDict(<<it>>)>> : it \in VPFrameItems}
    \cup {<<"Frame", PyDict(<<(<<"ArmLength", PyFloat(1000)>>), b>>)>> :
            b \in {<<"Rotor", PyDict(<<it>>)>> : it \in VPRotorItems}}
    \cup {<<"Frame", PyInt(1000)>>}

RECURSIVE SeqsUpTo(_, _)
SeqsUpTo(S, n) ==
    IF n = 0 THEN {<<>>}
    ELSE LET shorter == SeqsUpTo(S, n - 1)
         IN shorter \cup {Append(s, x) : s \in {q \in shorter : Len(q) = n - 1}, x \in S}

\* a JSON object keeps one value per key
DistinctKeys(items) ==
    \A i, j \in 1..Len(items) : items[i][1] = items[j][1] => i = j

VPProfiles == {p \in SeqsUpTo(VPTopItems, MaxVPParams) : DistinctKeys(p)}

(***************************************************************************)
(* The files validate_settings_file reads besides the document             *)
(***************************************************************************)
\* settings/SupportedScenarios.json: scenarios["Scenarios"]
SupportedScenarios == {"DataCollection", "Navigation"}

\* settings/SupportedEnvironments.json: envs["Environments"]
SupportedEnvironments ==
    [Env1 |-> [Levels |-> <<"L1", "L2">>,
               Options |-> [TimeOfDay |-> [ValidOptions |-> <<PyStr("day"), PyStr("night")>>]]],
     Env2 |-> [Levels |-> <<"L1">>, Options |-> <<>>]]

(***************************************************************************)
(* validate_settings_file: the checks of a section.  A check returns "ok"  *)
(* or the kind of the error it raises; every error raised inside           *)
(* validate_settings_file is caught there and turned into return False.    *)
(***************************************************************************)
Has(d, k) == k \in KeySet(d)

\* isinstance(x, int): bool is a subclass of int
IsInstanceInt(x) == x.t \in {"int", "bool"}

\* the first error of a sequence of check results, "ok" when there is none
RECURSIVE FirstError(_, _)
FirstError(rs, i) ==
    IF i > Len(rs) THEN "ok"
    ELSE IF rs[i] # "ok" THEN rs[i]
    ELSE FirstError(rs, i + 1)

validate_scenario_name(scenario_name) ==
    scenario_name.t = "str" /\ scenario_name.v \in SupportedScenarios

validate_environment_name(map_name) ==
    map_name.t = "str" /\ map_name.v \in DOMAIN SupportedEnvironments

\* truthy only when the environment is known and lists the level
validate_level_is_supported(env_name, level_name) ==
    /\ env_name.t = "str"
    /\ env_name.v \in DOMAIN SupportedEnvironments
    /\ level_name.t = "str"
    /\ level_name.v \in SeqToSet(SupportedEnvironments[env_name.v].Levels)

RunLengthMin == 30000

RunLengthMax == 9999000

ValidateID(options) ==
    IF IsInstanceInt(options) THEN "ok" ELSE "IDNotInt"

\* the check of RunLength with both bounds left out of the interval
ValidateRunLength_Strict(options) ==
    IF ~(IsInstanceInt(options) \/ options.t = "float") THEN "RunLengthType"
    ELSE IF ~(Num(options) > RunLengthMin /\ Num(options) < RunLengthMax)
    THEN "RunLengthRange"
    ELSE "ok"

\* the check of the key RunLength
ValidateRunLength(options) ==
    IF ~(IsInstanceInt(options) \/ options.t = "float") THEN "RunLengthType"
    ELSE IF ~(Num(options) >= RunLengthMin /\ Num(options) <= RunLengthMax)
    THEN "RunLengthRange"
    ELSE "ok"

CoordLimit == 999000

\* the checks of one goal with the coordinates unbounded
ValidateGoal_Unbounded(goal) ==
    IF goal.t # "dict" \/ DictKeys(goal) # <<"X", "Y", "Z">> THEN "GoalKeys"
    ELSE FirstError([i \in 1..Len(goal.v) |->
            IF goal.v[i][2].t # "float" THEN "GoalCoordType"
            ELSE "ok"], 1)

\* the checks of one goal of Scenario.Options.GoalPoint
ValidateGoal(goal) ==
    IF goal.t # "dict" \/ DictKeys(goal) # <<"X", "Y", "Z">> THEN "GoalKeys"
    ELSE FirstError([i \in 1..Len(goal.v) |->
            IF goal.v[i][2].t # "float" THEN "GoalCoordType"
            ELSE IF goal.v[i][2].v < -CoordLimit \/ goal.v[i][2].v > CoordLimit
                 THEN "GoalCoordRange"
            ELSE "ok"], 1)

ValidateScenario(options, sf) ==
    IF options.t # "dict" THEN "AttributeError"
    ELSE IF DictKeys(options) # <<"Name", "Options">> THEN "ScenarioKeys"
    ELSE IF ~validate_scenario_name(DictGet(options, "Name")) THEN "ScenarioName"
    ELSE LET opts == DictGet(options, "Options")
             levels == IF Has(opts, "LevelNames")
                       THEN IF ~Has(sf, "Environment") THEN "KeyError"
                            ELSE IF ~Has(DictGet(sf, "Environment"), "Name") THEN "KeyError"
                            ELSE IF \E i \in 1..Len(DictGet(opts, "LevelNames").v) :
                                      ~validate_level_is_supported(
                                          DictGet(DictGet(sf, "Environment"), "Name"),
                                          DictGet(opts, "LevelNames").v[i])
                                 THEN "LevelNotSupported"
                            ELSE "ok"
                       ELSE "ok"
             multi == IF Has(opts, "MultiLevel") /\ DictGet(opts, "MultiLevel").t # "bool"
                      THEN "MultiLevelNotBool" ELSE "ok"
             goals == IF Has(opts, "GoalPoint")
                      THEN IF ~Has(sf, "Agents") THEN "KeyError"
                           ELSE IF Len(DictGet(opts, "GoalPoint").v) # Len(DictGet(sf, "Agents").v)
                                THEN "GoalCount"
                           ELSE FirstError([i \in 1..Len(DictGet(opts, "GoalPoint").v) |->
                                    ValidateGoal(DictGet(opts, "GoalPoint").v[i][2])], 1)
                      ELSE "ok"
         IN FirstError(<<levels, multi, goals>>, 1)

\* _validate_option_in_env_supported
validate_option_in_env_supported(option_name, option, env_name) ==
    LET valid_options == SupportedEnvironments[env_name].Options
    IN IF DOMAIN valid_options = {} THEN "EnvNoOptions"
       ELSE IF option_name \notin DOMAIN valid_options THEN "EnvOptionName"
       ELSE IF ~PyIn(option, valid_options[option_name].ValidOptions) THEN "EnvOptionValue"
       ELSE "ok"

\* validate_environment_options
validate_environment_options(env_options) ==
    IF Has(env_options, "Options")
    THEN FirstError([i \in 1..Len(DictGet(env_options, "Options").v) |->
            validate_option_in_env_supported(DictGet(env_options, "Options").v[i][1],
                                             DictGet(env_options, "Options").v[i][2],
                                             DictGet(env_options, "Name").v)], 1)
    ELSE "ok"

ValidateEnvironment(options, sf) ==
    IF options.t # "dict" THEN "AttributeError"
    ELSE IF ~Has(options, "Name") THEN "EnvNoName"
    ELSE IF ~validate_environment_name(DictGet(options, "Name")) THEN "EnvName"
    ELSE IF ~Has(options, "StreamVideo") THEN "KeyError"
    ELSE IF DictGet(options, "StreamVideo").t # "bool" THEN "StreamVideoNotBool"
    ELSE IF ~Has(options, "StartingLevelName") THEN "KeyError"
    ELSE IF DictGet(options, "StartingLevelName").t # "str" THEN "LevelNameNotStr"
    ELSE IF ~Has(sf, "Scenario") THEN "KeyError"
    ELSE IF DictGet(sf, "Scenario").t # "dict" THEN "TypeError"
    ELSE IF ~Has(DictGet(sf, "Scenario"), "Options") THEN "KeyError"
    ELSE IF ~Has(DictGet(DictGet(sf, "Scenario"), "Options"), "LevelNames") THEN "KeyError"
    ELSE IF ~PyIn(DictGet(options, "StartingLevelName"),
                  DictGet(DictGet(DictGet(sf, "Scenario"), "Options"), "LevelNames").v)
         THEN "StartingLevelNotInScenario"
    ELSE IF ~validate_level_is_supported(DictGet(options, "Name"),
                                         DictGet(options, "StartingLevelName"))
         THEN "LevelNotSupported"
    ELSE validate_environment_options(options)

ImagesPerSecondMin == 1000

ImagesPerSecondMax == 20000

\* the camera names of every agent, for Data.Video; fails when an agent has no Cameras
RECURSIVE VideoCameraCheck(_, _, _, _)
VideoCameraCheck(agents, i, camera_names, wanted) ==
    IF i > Len(agents.v) THEN (IF wanted.v \in camera_names THEN "ok" ELSE "VideoCameraUnknown")
    ELSE LET sensors == DictGet(agents.v[i][2], "Sensors")
         IN IF ~Has(sensors, "Cameras") THEN "VideoNoCameras"
            ELSE VideoCameraCheck(agents, i + 1,
                     camera_names \cup KeySet(DictGet(sensors, "Cameras")), wanted)

ValidateDataType(data_type, options, sf) ==
    IF data_type \notin {"Images", "VehicleState", "Video"} THEN "DataType"
    ELSE IF data_type = "Images" THEN
        LET img == DictGet(options, "Images")
        IN IF ~Has(img, "Format") THEN "KeyError"
           ELSE IF ~PyIn(DictGet(img, "Format"), <<PyStr("PNG")>>) THEN "ImageFormat"
           ELSE IF ~Has(img, "ImagesPerSecond") THEN "ImagesPerSecondMissing"
           ELSE IF ~IsInstanceInt(DictGet(img, "ImagesPerSecond")) THEN "ImagesPerSecondType"
           ELSE IF Num(DictGet(img, "ImagesPerSecond")) > ImagesPerSecondMax
                   \/ Num(DictGet(img, "ImagesPerSecond")) < ImagesPerSecondMin
                THEN "ImagesPerSecondRange"
           ELSE "ok"
    ELSE IF data_type = "Video" THEN
        LET vid == DictGet(options, "Video")
        IN IF ~Has(vid, "Format") THEN "VideoFormatMissing"
           ELSE IF ~Has(vid, "VideoName") THEN "VideoNameMissing"
           ELSE IF ~Has(vid, "CameraName") THEN "VideoCameraNameMissing"
           ELSE IF ~PyIn(DictGet(vid, "Format"), <<PyStr("MP4")>>) THEN "VideoFormat"
           ELSE IF DictGet(vid, "VideoName").t # "str" THEN "VideoNameType"
           ELSE IF DictGet(vid, "CameraName").t # "str" THEN "VideoCameraNameType"
           ELSE IF ~Has(sf, "Agents") THEN "KeyError"
           ELSE VideoCameraCheck(DictGet(sf, "Agents"), 1, {}, DictGet(vid, "CameraName"))
    ELSE "ok"

ValidateData(options, sf) ==
    IF options.t # "dict" THEN "AttributeError"
    ELSE FirstError([i \in 1..Len(options.v) |->
            ValidateDataType(options.v[i][1], options, sf)], 1)

\* the branch of the walk for a top-level key other than Agents; a key that no
\* branch names (SimulationName, or any other) is passed over
ValidateTopSection(key, options, sf) ==
    CASE key = "ID" -> ValidateID(options)
      [] key = "RunLength" -> ValidateRunLength(options)
      [] key = "Scenario" -> ValidateScenario(options, sf)
      [] key = "Environment" -> ValidateEnvironment(options, sf)
      [] key = "Data" -> ValidateData(options, sf)
      [] OTHER -> "ok"

(***************************************************************************)
(* validate_software_modules                                               *)
(***************************************************************************)
\* core/SupportedSoftwareModules.json: the value under "SupportedModules"
SupportedModulesFile ==
    [ValidModuleParameters |-> <<PyStr("Algorithm"), PyStr("Publishes"), PyStr("Subscribes"),
                                 PyStr("Parameters")>>,
     ValidMessageTypes |-> <<PyStr("Pose"), PyStr("Trajectory")>>,
     Detector |->
       [ValidClassNames |-> <<PyStr("Yolo")>>,
        ValidParameters |->
          [Yolo |->
            [threshold   |-> [type |-> "float", range |-> <<1000, 3000>>],
             classes     |-> [type |-> "int", range |-> <<1000, 5000>>,
                              valid_entries |-> <<PyInt(1000), PyInt(3000), PyInt(5000)>>],
             mode        |-> [type |-> "str", valid_entries |-> <<PyStr("fast"), PyStr("slow")>>],
             label       |-> [type |-> "str", valid_entries |-> <<PyStr("*")>>],
             camera_name |-> [type |-> "str", valid_entries |-> <<PyStr("*")>>],
             output_type |-> [type |-> "str", valid_entries |-> <<PyStr("*")>>],
             gains       |-> [type |-> "dict", valid_fields |-> <<PyStr("kp"), PyStr("kd")>>,
                              field_data_type |-> "float", field_range |-> <<0, 2000>>],
             tags        |-> [type |-> "dict", valid_fields |-> <<PyStr("a"), PyStr("b")>>,
                              field_data_type |-> "str", field_range |-> <<0, 0>>],
             extras      |-> [type |-> "dict", valid_fields |-> <<PyStr("*")>>,
                              field_data_type |-> "float", field_range |-> <<0, 2000>>],
             window      |-> [type |-> "list", length |-> 2,
                              field_data_type |-> "int", field_range |-> <<1000, 3000>>]]],
        ValidInputArgs |-> [Yolo |-> <<PyStr("Image")>>],
        ValidReturnValues |-> [Yolo |-> <<PyStr("Boxes")>>],
        ValidModuleParameters |->
          [rate   |-> [type |-> "float", range |-> <<1000, 3000>>],
           limits |-> [type |-> "dict", valid_fields |-> <<PyStr("lo"), PyStr("hi")>>,
                       field_data_type |-> "float", field_range |-> <<0, 2000>>],
           free   |-> [type |-> "dict", valid_fields |-> <<PyStr("lo")>>,
                       field_data_type |-> "*", field_range |-> <<0, 0>>]]],
     Recorder |->
       [ValidClassNames |-> <<PyStr("Mp4Writer")>>,
        ValidParameters |->
          [Mp4Writer |->
            [output_type |-> [type |-> "str",
                              valid_entries |-> <<PyStr("display"), PyStr("images"),
                                                  PyStr("video")>>]]],
        ValidInputArgs |-> [Mp4Writer |-> <<>>],
        ValidReturnValues |-> [Mp4Writer |-> <<>>],
        ValidModuleParameters |-> [rate |-> [type |-> "float", range |-> <<1000, 3000>>]]]]

ModuleNames == DOMAIN SupportedModulesFile \ {"ValidModuleParameters", "ValidMessageTypes"}

\* the list the code writes over the valid entries of output_type on a remote server
RemoteOutputTypes == <<PyStr("images"), PyStr("video")>>

\* validate_camera_stream_settings
validate_camera_stream_settings(camera_name, sensors) ==
    IF ~Has(sensors, "Cameras") THEN "NoCamerasSection"
    ELSE IF camera_name.t # "str" \/ camera_name.v \notin KeySet(DictGet(sensors, "Cameras"))
         THEN "CameraNotListed"
    ELSE "ok"

\* a camera name taken without a look at Subscribes
validate_camera_subscription_Absent(camera_name, module_parameters) == "ok"

\* _validate_camera_subscription
validate_camera_subscription(camera_name, module_parameters) ==
    IF ~Has(module_parameters, "Subscribes") THEN "KeyError"
    ELSE IF \E i \in 1..Len(DictGet(module_parameters, "Subscribes").v) :
              LET subscription == DictGet(module_parameters, "Subscribes").v[i]
              IN /\ subscription.t = "dict"
                 /\ Has(subscription, "Image")
                 /\ PyEq(camera_name, DictGet(subscription, "Image"))
         THEN "ok"
    ELSE "NoCameraSubscription"

\* the checks of the elements of a list parameter
ListChecks(value, rule) ==
    IF Len(value.v) # rule.length THEN "ListLength"
    ELSE FirstError([i \in 1..Len(value.v) |->
            IF value.v[i].t # rule.field_data_type THEN "ItemTypeMismatch"
            ELSE IF value.v[i].t \in {"float", "int"}
                    /\ (value.v[i].v < rule.field_range[1] \/ value.v[i].v > rule.field_range[2])
                 THEN "ItemRange"
            ELSE "ok"], 1)

\* the checks of the items of a dict parameter under Algorithm.Parameters:
\* the membership test is made on the item's value
AlgoDictChecks(value, rule) ==
    FirstError([i \in 1..Len(value.v) |->
        LET item == value.v[i][2]
        IN IF Len(rule.valid_fields) > 0
              /\ rule.valid_fields[Len(rule.valid_fields)] = PyStr("*") THEN "ok"
           ELSE IF ~PyIn(item, rule.valid_fields) THEN "InvalidKey"
           ELSE IF item.t # rule.field_data_type THEN "ItemTypeMismatch"
           ELSE IF item.t \in {"float", "int"}
                   /\ (item.v < rule.field_range[1] \/ item.v > rule.field_range[2])
                THEN "ItemRange"
           ELSE "ok"], 1)

\* the checks of the items of a dict parameter under the module's Parameters
ModuleDictChecks(value, rule) ==
    FirstError([i \in 1..Len(value.v) |->
        LET key == value.v[i][1]
            item == value.v[i][2]
        IN IF rule.field_data_type = "*" THEN "ok"
           ELSE IF ~PyIn(PyStr(key), rule.valid_fields) THEN "InvalidKey"
           ELSE IF item.t # rule.field_data_type THEN "ItemTypeMismatch"
           ELSE IF item.t \in {"float", "int"}
                   /\ (item.v < rule.field_range[1] \/ item.v > rule.field_range[2])
                THEN "ItemRange"
           ELSE "ok"], 1)

\* the range check of a float or int parameter
RangeCheck(value, rule) ==
    IF value.v < rule.range[1] \/ value.v > rule.range[2] THEN "Range" ELSE "ok"

\* the rule of output_type as the check of the entries sees it
OutputTypeRule(rule, loc) ==
    IF loc = "False" THEN [rule EXCEPT !.valid_entries = RemoteOutputTypes] ELSE rule

\* the checks of a str parameter under Algorithm.Parameters
AlgoStrChecks(param_name, value, rule, settings, sensors, loc) ==
    IF param_name = "output_type" /\ loc = "unset" THEN "AttributeError"
    ELSE LET used == IF param_name = "output_type" THEN OutputTypeRule(rule, loc) ELSE rule
             camera == IF param_name = "camera_name"
                       THEN FirstError(<<validate_camera_stream_settings(value, sensors),
                                         validate_camera_subscription(value, settings)>>, 1)
                       ELSE "ok"
         IN IF camera # "ok" THEN camera
            ELSE IF Len(used.valid_entries) > 0 /\ used.valid_entries[1] = PyStr("*") THEN "ok"
            ELSE IF ~PyIn(value, used.valid_entries) THEN "InvalidEntry"
            ELSE "ok"

\* the check of one parameter with a name the descriptor lacks passed over
AlgoParamCheck_SkipsUnknown(param_name, value, valid_params, settings, sensors, loc) ==
    IF param_name \notin DOMAIN valid_params THEN "ok"
    ELSE LET rule == valid_params[param_name]
         IN IF value.t # rule.type THEN "TypeMismatch"
            ELSE IF value.t = "str"
                 THEN AlgoStrChecks(param_name, value, rule, settings, sensors, loc)
            ELSE IF value.t = "list" THEN ListChecks(value, rule)
            ELSE IF value.t = "dict" THEN AlgoDictChecks(value, rule)
            ELSE IF value.t \in {"float", "int"} THEN RangeCheck(value, rule)
            ELSE "ok"

\* one pass of the loop over Algorithm.Parameters: the check of one parameter
\* against valid_params, the rules of the class as they stand at that point
AlgoParamCheck(param_name, value, valid_params, settings, sensors, loc) ==
    IF param_name \notin DOMAIN valid_params THEN "UnknownParam"
    ELSE LET rule == valid_params[param_name]
         IN IF value.t # rule.type THEN "TypeMismatch"
            ELSE IF value.t = "str"
                 THEN AlgoStrChecks(param_name, value, rule, settings, sensors, loc)
            ELSE IF value.t = "list" THEN ListChecks(value, rule)
            ELSE IF value.t = "dict" THEN AlgoDictChecks(value, rule)
            ELSE IF value.t \in {"float", "int"} THEN RangeCheck(value, rule)
            ELSE "ok"

\* valid_params after the check of one parameter: a str output_type checked on a
\* remote server has its valid entries written over
AlgoParamEffect(param_name, value, valid_params, loc) ==
    IF /\ param_name \in DOMAIN valid_params
       /\ value.t = valid_params[param_name].type
       /\ value.t = "str"
       /\ param_name = "output_type"
       /\ loc = "False"
    THEN [valid_params EXCEPT ![param_name].valid_entries = RemoteOutputTypes]
    ELSE valid_params

\* the loop over Algorithm.Parameters; returns the error and the rules as left
RECURSIVE AlgoParamsLoop(_, _, _, _, _, _)
AlgoParamsLoop(params, i, valid_params, settings, sensors, loc) ==
    IF i > Len(params.v) THEN [err |-> "ok", at |-> "none", valid_params |-> valid_params]
    ELSE LET r == AlgoParamCheck(params.v[i][1], params.v[i][2], valid_params,
                                 settings, sensors, loc)
             after == AlgoParamEffect(params.v[i][1], params.v[i][2], valid_params, loc)
         IN IF r # "ok" THEN [err |-> r, at |-> params.v[i][1], valid_params |-> after]
            ELSE AlgoParamsLoop(params, i + 1, after, settings, sensors, loc)

NamesCheck(names, valid, kind) ==
    IF \E i \in 1..Len(names.v) : ~PyIn(names.v[i], valid) THEN kind ELSE "ok"

\* the loop over the items of settings["Algorithm"]
RECURSIVE AlgorithmLoop(_, _, _, _, _, _, _)
AlgorithmLoop(algo, i, module_desc, class_name, settings, sensors, loc) ==
    LET valid_params == module_desc.ValidParameters[class_name]
    IN IF i > Len(algo.v) THEN [err |-> "ok", at |-> "none", valid_params |-> valid_params]
       ELSE LET name == algo.v[i][1]
                r == IF name = "Parameters"
                     THEN AlgoParamsLoop(algo.v[i][2], 1, valid_params, settings, sensors, loc)
                     ELSE IF name = "InputArgs"
                     THEN [err |-> NamesCheck(algo.v[i][2],
                                       module_desc.ValidInputArgs[class_name], "InputArg"),
                           at |-> "InputArgs", valid_params |-> valid_params]
                     ELSE IF name = "ReturnValues"
                     THEN [err |-> NamesCheck(algo.v[i][2],
                                       module_desc.ValidReturnValues[class_name], "ReturnValue"),
                           at |-> "ReturnValues", valid_params |-> valid_params]
                     ELSE [err |-> "ok", at |-> "none", valid_params |-> valid_params]
            IN IF r.err # "ok" THEN r
               ELSE AlgorithmLoop(algo, i + 1,
                        [module_desc EXCEPT !.ValidParameters[class_name] = r.valid_params],
                        class_name, settings, sensors, loc)

\* the check of the messages of Publishes or Subscribes
MessagesCheck(setting, valid_messages, sensors) ==
    FirstError([i \in 1..Len(setting.v) |->
        LET message == setting.v[i]
        IN IF message.t = "str"
           THEN (IF ~PyIn(message, valid_messages) THEN "InvalidMessage" ELSE "ok")
           ELSE IF message.t = "dict" /\ Has(message, "Image")
           THEN validate_camera_stream_settings(DictGet(message, "Image"), sensors)
           ELSE "ok"], 1)

\* the check of one parameter of the module's Parameters section
ModuleParamCheck(param_name, value, valid_params) ==
    IF param_name \notin DOMAIN valid_params THEN "UnknownParam"
    ELSE LET rule == valid_params[param_name]
         IN IF value.t # rule.type THEN "TypeMismatch"
            ELSE IF value.t = "list" THEN ListChecks(value, rule)
            ELSE IF value.t = "dict" THEN ModuleDictChecks(value, rule)
            ELSE IF value.t \in {"float", "int"} THEN RangeCheck(value, rule)
            ELSE "ok"

ModuleParamsCheck(setting, valid_params) ==
    LET rs == [i \in 1..Len(setting.v) |->
                  ModuleParamCheck(setting.v[i][1], setting.v[i][2], valid_params)]
        bad == {i \in 1..Len(rs) : rs[i] # "ok"}
    IN IF bad = {} THEN [err |-> "ok", at |-> "none"]
       ELSE LET first == CHOOSE i \in bad : \A j \in bad : i <= j
            IN [err |-> rs[first], at |-> setting.v[first][1]]

\* the loop over the items of a module's settings
RECURSIVE SettingsLoop(_, _, _, _, _, _, _)
SettingsLoop(settings, i, desc, module_name, class_name, sensors, loc) ==
    IF i > Len(settings.v) THEN [err |-> "ok", at |-> "none", desc |-> desc]
    ELSE LET setting_name == settings.v[i][1]
             setting == settings.v[i][2]
         IN IF ~PyIn(PyStr(setting_name), desc.ValidModuleParameters)
            THEN [err |-> "InvalidModuleParameter", at |-> setting_name, desc |-> desc]
            ELSE IF setting_name = "Algorithm"
            THEN LET r == AlgorithmLoop(setting, 1, desc[module_name], class_name,
                                        settings, sensors, loc)
                     after == [desc EXCEPT ![module_name].ValidParameters[class_name] =
                                               r.valid_params]
                 IN IF r.err # "ok" THEN [err |-> r.err, at |-> r.at, desc |-> after]
                    ELSE SettingsLoop(settings, i + 1, after, module_name, class_name,
                                      sensors, loc)
            ELSE IF setting_name \in {"Publishes", "Subscribes"}
            THEN LET r == MessagesCheck(setting, desc.ValidMessageTypes, sensors)
                 IN IF r # "ok" THEN [err |-> r, at |-> setting_name, desc |-> desc]
                    ELSE SettingsLoop(settings, i + 1, desc, module_name, class_name,
                                      sensors, loc)
            ELSE IF setting_name = "Parameters"
            THEN LET r == ModuleParamsCheck(setting, desc[module_name].ValidModuleParameters)
                 IN IF r.err # "ok" THEN [err |-> r.err, at |-> r.at, desc |-> desc]
                    ELSE SettingsLoop(settings, i + 1, desc, module_name, class_name,
                                      sensors, loc)
            ELSE SettingsLoop(settings, i + 1, desc, module_name, class_name, sensors, loc)

\* the checks of one module with a module of Level 3 examined like the others
ValidateModule_NoBypass(module_name, settings, sensors, desc, loc) ==
    IF module_name \notin DOMAIN desc
    THEN [err |-> "UnsupportedModule", at |-> module_name, desc |-> desc]
    ELSE IF ~Has(settings, "Algorithm") \/ ~Has(DictGet(settings, "Algorithm"), "Level")
    THEN [err |-> "KeyError", at |-> module_name, desc |-> desc]
    ELSE LET algo == DictGet(settings, "Algorithm")
             algo_level == DictGet(algo, "Level")
         IN IF ~IsInstanceInt(algo_level) \/ Num(algo_level) \notin {1000, 2000, 3000}
            THEN [err |-> "InvalidLevel", at |-> module_name, desc |-> desc]
            ELSE IF ~Has(algo, "ClassName")
            THEN [err |-> "KeyError", at |-> module_name, desc |-> desc]
            ELSE IF ~PyIn(DictGet(algo, "ClassName"), desc[module_name].ValidClassNames)
            THEN [err |-> "InvalidClassName", at |-> module_name, desc |-> desc]
            ELSE SettingsLoop(settings, 1, desc, module_name,
                              DictGet(algo, "ClassName").v, sensors, loc)

\* one pass of the loop of validate_software_modules: the checks of one module;
\* desc is supported_modules as it stands, loc is self._local
ValidateModule(module_name, settings, sensors, desc, loc) ==
    IF module_name \notin DOMAIN desc
    THEN [err |-> "UnsupportedModule", at |-> module_name, desc |-> desc]
    ELSE IF ~Has(settings, "Algorithm") \/ ~Has(DictGet(settings, "Algorithm"), "Level")
    THEN [err |-> "KeyError", at |-> module_name, desc |-> desc]
    ELSE LET algo == DictGet(settings, "Algorithm")
             algo_level == DictGet(algo, "Level")
         IN IF ~IsInstanceInt(algo_level) \/ Num(algo_level) \notin {1000, 2000, 3000}
            THEN [err |-> "InvalidLevel", at |-> module_name, desc |-> desc]
            ELSE IF Num(algo_level) = 3000
            THEN [err |-> "ok", at |-> "none", desc |-> desc]
            ELSE IF ~Has(algo, "ClassName")
            THEN [err |-> "KeyError", at |-> module_name, desc |-> desc]
            ELSE IF ~PyIn(DictGet(algo, "ClassName"), desc[module_name].ValidClassNames)
            THEN [err |-> "InvalidClassName", at |-> module_name, desc |-> desc]
            ELSE SettingsLoop(settings, 1, desc, module_name,
                              DictGet(algo, "ClassName").v, sensors, loc)

(***************************************************************************)
(* validate_settings_file: the sections of an agent                        *)
(***************************************************************************)
\* a float inside [lo, hi]
FloatWithin(x, lo, hi) == x.t = "float" /\ ~(x.v < lo \/ x.v > hi)

\* isinstance(x, float) or isinstance(x, int)
IsFloatOrInt(x) == x.t = "float" \/ IsInstanceInt(x)

\* int(x): truncation toward zero
PyIntOf(x) ==
    IF Num(x) >= 0 THEN Num(x) \div 1000 ELSE -((-Num(x)) \div 1000)

\* validate_publishing_Rate
validate_publishing_Rate(sensor_setting, min, max) ==
    IF sensor_setting.t # "float" THEN "PublishingRateType"
    ELSE IF sensor_setting.v > max \/ sensor_setting.v < min THEN "PublishingRateRange"
    ELSE "ok"

\* the settings of one camera
ValidateCameraSettings(sensor_setting) ==
    IF KeySet(sensor_setting) # {"ImageType", "Width", "Height", "FOV_Degrees", "FramesPerSecond"}
       \/ Len(sensor_setting.v) # 5
    THEN "CameraSettingsSections"
    ELSE FirstError([i \in 1..Len(sensor_setting.v) |->
        LET k == sensor_setting.v[i][1]
            x == sensor_setting.v[i][2]
        IN IF k # "ImageType" /\ ~IsFloatOrInt(x) THEN "CameraSettingType"
           ELSE IF k = "Width" THEN
                (IF Num(x) > 1280000 \/ Num(x) < 640000 THEN "CameraWidth" ELSE "ok")
           ELSE IF k = "Height" THEN
                (IF Num(x) > 720000 \/ Num(x) < 480000 THEN "CameraHeight" ELSE "ok")
           ELSE IF k = "FOV_Degrees" THEN
                (IF Num(x) > 180000 \/ Num(x) < 10000 THEN "CameraFOV" ELSE "ok")
           ELSE IF k = "FramesPerSecond" THEN
                (IF Num(x) > 30000 \/ Num(x) < 1000 THEN "CameraFPS" ELSE "ok")
           ELSE IF x.t # "str" THEN "ImageTypeType"
           ELSE IF x.v \notin {"Scene", "Segmentation", "Depth"} THEN "ImageTypeValue"
           ELSE "ok"], 1)

\* the checks of one camera of Sensors.Cameras
ValidateCamera(camera_options) ==
    IF camera_options.t # "dict" THEN "AttributeError"
    ELSE IF KeySet(camera_options) #
              {"Enabled", "PublishPose", "X", "Y", "Z", "Settings", "Roll", "Pitch", "Yaw"}
            \/ Len(camera_options.v) # 9
    THEN "CameraSections"
    ELSE FirstError([i \in 1..Len(camera_options.v) |->
        LET k == camera_options.v[i][1]
            x == camera_options.v[i][2]
        IN IF k \in {"X", "Y", "Z"} THEN
                (IF ~FloatWithin(x, -50000, 50000) THEN "CameraPosition" ELSE "ok")
           ELSE IF k \in {"Yaw", "Pitch", "Roll"} THEN
                (IF ~FloatWithin(x, -360000, 360000) THEN "CameraAngle" ELSE "ok")
           ELSE IF k = "Settings" THEN
                (IF x.t # "dict" THEN "AttributeError" ELSE ValidateCameraSettings(x))
           ELSE "ok"], 1)

\* the upper bound of PublishingRate for the sensors made of Enabled, Method, PublishingRate
RateMax(sensor_type) ==
    CASE sensor_type = "Odometers" -> 50000
      [] sensor_type = "IMU" -> 150000
      [] OTHER -> 20000

\* the checks of one Barometers, Odometers, Magnetometers, GPS, AirSpeed or IMU entry;
\* the Odometers branch names the sensor by baro_name, which is bound only once
\* the walk has been through a Barometers entry
ValidateRateSensor(sensor_type, options, baro_bound) ==
    IF options.t # "dict" THEN "AttributeError"
    ELSE IF KeySet(options) # {"Enabled", "Method", "PublishingRate"} \/ Len(options.v) # 3
    THEN "SensorSections"
    ELSE FirstError([i \in 1..Len(options.v) |->
        LET k == options.v[i][1]
            x == options.v[i][2]
        IN IF k = "Method" THEN
                (IF x.t # "str" \/ x.v # "Colosseum" THEN "SensorMethod" ELSE "ok")
           ELSE IF k = "PublishingRate" THEN
                (IF sensor_type = "Odometers" /\ ~baro_bound THEN "UnboundLocalError"
                 ELSE validate_publishing_Rate(x, 1000, RateMax(sensor_type)))
           ELSE "ok"], 1)

\* the checks of one Distance sensor
ValidateDistance(options) ==
    IF options.t # "dict" THEN "AttributeError"
    ELSE IF KeySet(options) # {"Enabled", "Method", "X", "Y", "Z", "Roll", "Pitch", "Yaw",
                               "PublishingRate", "MinDistance", "MaxDistance"}
            \/ Len(options.v) # 11
    THEN "SensorSections"
    ELSE FirstError([i \in 1..Len(options.v) |->
        LET k == options.v[i][1]
            x == options.v[i][2]
        IN IF k \in {"X", "Y", "Z"} THEN
                (IF ~FloatWithin(x, -50000, 50000) THEN "SensorPosition" ELSE "ok")
           ELSE IF k \in {"Yaw", "Pitch", "Roll"} THEN
                (IF ~FloatWithin(x, -360000, 360000) THEN "SensorAngle" ELSE "ok")
           ELSE IF k = "MinDistance" THEN
                (IF x.t # "float" THEN "MinDistance"
                 ELSE IF ~IsNumber(DictGet(options, "MaxDistance")) THEN "TypeError"
                 ELSE IF x.v < 200 \/ x.v >= Num(DictGet(options, "MaxDistance"))
                      THEN "MinDistance"
                 ELSE "ok")
           ELSE IF k = "MaxDistance" THEN
                (IF x.t # "float" THEN "MaxDistance"
                 ELSE IF ~IsNumber(DictGet(options, "MinDistance")) THEN "TypeError"
                 ELSE IF x.v > 1000000 \/ x.v <= Num(DictGet(options, "MinDistance"))
                      THEN "MaxDistance"
                 ELSE "ok")
           ELSE IF k = "PublishingRate" THEN validate_publishing_Rate(x, 1000, 20000)
           ELSE "ok"], 1)

\* the checks of the Settings of one LiDAR
ValidateLidarSettings(sensor_setting) ==
    FirstError([i \in 1..Len(sensor_setting.v) |->
        LET k == sensor_setting.v[i][1]
            x == sensor_setting.v[i][2]
        IN IF k \notin {"Range", "NumberOfChannels", "RotationsPerSecond", "PointsPerSecond",
                        "VerticalFOVUpper", "VerticalFOVLower", "HorizontalFOVStart",
                        "HorizontalFOVEnd", "DataFrame"}
           THEN "LidarSettingName"
           ELSE IF k # "DataFrame" /\ ~IsFloatOrInt(x) THEN "LidarSettingType"
           ELSE IF k = "Range" THEN
                (IF Num(x) > 250000 \/ Num(x) < 200 THEN "LidarRange" ELSE "ok")
           ELSE IF k = "NumberOfChannels" THEN
                (IF Num(x) > 6000 \/ Num(x) < 32000 THEN "LidarChannels" ELSE "ok")
           ELSE IF k = "RotationsPerSecond" THEN
                (IF PyIntOf(x) > 5 \/ PyIntOf(x) < 20 THEN "LidarRotations" ELSE "ok")
           ELSE IF k = "PointsPerSecond" THEN
                (IF Num(x) > 1000000000 \/ Num(x) < 10000000 THEN "LidarPoints" ELSE "ok")
           ELSE IF k = "VerticalFOVUpper" THEN
                (IF Num(x) > 90000 \/ Num(x) < -85000 THEN "LidarVFOVUpper" ELSE "ok")
           ELSE IF k = "VerticalFOVLower" THEN
                (IF Num(x) < -90000 \/ Num(x) > 85000 THEN "LidarVFOVLower" ELSE "ok")
           ELSE IF k = "HorizontalFOVStart" THEN
                (IF Num(x) > -5000 \/ Num(x) < -60000 THEN "LidarHFOVStart" ELSE "ok")
           ELSE IF k = "HorizontalFOVEnd" THEN
                (IF Num(x) > 60000 \/ Num(x) < 5000 THEN "LidarHFOVEnd" ELSE "ok")
           ELSE "ok"], 1)

\* the checks of one LiDAR
ValidateLidar(options) ==
    IF options.t # "dict" THEN "AttributeError"
    ELSE IF KeySet(options) # {"Enabled", "Method", "X", "Y", "Z", "Settings", "Roll", "Pitch",
                               "Yaw", "PublishingRate", "Hardware"}
            \/ Len(options.v) # 11
    THEN "SensorSections"
    ELSE FirstError([i \in 1..Len(options.v) |->
        LET k == options.v[i][1]
            x == options.v[i][2]
        IN IF k \in {"X", "Y", "Z"} THEN
                (IF ~FloatWithin(x, -50000, 50000) THEN "SensorPosition" ELSE "ok")
           ELSE IF k \in {"Yaw", "Pitch", "Roll"} THEN
                (IF ~FloatWithin(x, -360000, 360000) THEN "SensorAngle" ELSE "ok")
           ELSE IF k = "PublishingRate" THEN validate_publishing_Rate(x, 1000, 30000)
           ELSE IF k = "Settings" THEN
                (IF x.t # "dict" THEN "AttributeError" ELSE ValidateLidarSettings(x))
           ELSE "ok"], 1)

ValidSensorTypes ==
    {"Cameras", "LiDAR", "IMU", "GPS", "Barometers", "AirSpeed", "Odometers",
     "Magnetometers", "Distance"}

\* the checks of the entries of one sensor type
ValidateSensorType(sensor_type, sensor_settings, baro_bound) ==
    IF sensor_type \notin ValidSensorTypes THEN "UnsupportedSensor"
    ELSE IF sensor_settings.t # "dict" THEN "AttributeError"
    ELSE FirstError([i \in 1..Len(sensor_settings.v) |->
        LET options == sensor_settings.v[i][2]
        IN CASE sensor_type = "Cameras" -> ValidateCamera(options)
             [] sensor_type = "Distance" -> ValidateDistance(options)
             [] sensor_type = "LiDAR" -> ValidateLidar(options)
             [] OTHER -> ValidateRateSensor(sensor_type, options,
                             baro_bound \/ sensor_type = "Barometers")], 1)

\* the loop over the sensor types of an agent; bound tells whether baro_name is bound
RECURSIVE SensorsLoop(_, _, _)
SensorsLoop(section, i, bound) ==
    IF i > Len(section.v) THEN [err |-> "ok", baro_bound |-> bound]
    ELSE LET sensor_type == section.v[i][1]
             r == ValidateSensorType(sensor_type, section.v[i][2], bound)
             after == bound \/ (sensor_type = "Barometers" /\ section.v[i][2].t = "dict"
                                /\ Len(section.v[i][2].v) > 0)
         IN IF r # "ok" THEN [err |-> r, baro_bound |-> after]
            ELSE SensorsLoop(section, i + 1, after)

\* the Sensors section of an agent with no barometer asked of PX4
ValidateSensors_NoBarometers(section, autopilot, bound) ==
    IF section.t # "dict" THEN [err |-> "AttributeError", baro_bound |-> bound]
    ELSE IF PyEq(autopilot, PyStr("PX4"))
            /\ ~({"IMU", "Magnetometers"} \subseteq KeySet(section))
    THEN [err |-> "PX4Sensors", baro_bound |-> bound]
    ELSE SensorsLoop(section, 1, bound)

\* the Sensors section of an agent
ValidateSensors(section, autopilot, bound) ==
    IF section.t # "dict" THEN [err |-> "AttributeError", baro_bound |-> bound]
    ELSE IF PyEq(autopilot, PyStr("PX4"))
            /\ ~({"IMU", "Magnetometers", "Barometers"} \subseteq KeySet(section))
    THEN [err |-> "PX4Sensors", baro_bound |-> bound]
    ELSE SensorsLoop(section, 1, bound)

\* ipaddress.ip_address accepts the address
IsIPAddress(s) == s \in {"127.0.0.1", "10.0.0.5", "::1"}

ValidateVehicleOptions(section) ==
    IF section.t # "dict" THEN "VehicleOptionsNotDict"
    ELSE FirstError([i \in 1..Len(section.v) |->
        LET k == section.v[i][1]
            x == section.v[i][2]
        IN IF k \notin {"RunROSNode", "UseLocalPX4", "PlanningCoordinateFrame", "LocalHostIP"}
           THEN "VehicleOptionName"
           ELSE IF k = "RunROSNode" THEN
                (IF x.t # "bool" THEN "RunROSNodeType"
                 ELSE IF ~Has(section, "PlanningCoordinateFrame") THEN "PlanningFrameMissing"
                 ELSE "ok")
           ELSE IF k = "PlanningCoordinateFrame" THEN
                (IF x.t # "str" THEN "PlanningFrameType"
                 ELSE IF x.v \notin {"NED", "ENU"} THEN "PlanningFrameValue"
                 ELSE "ok")
           ELSE IF k = "UseLocalPX4" THEN
                (IF x.t # "bool" THEN "UseLocalPX4Type" ELSE "ok")
           ELSE (IF x.t # "str" THEN "LocalHostIPType"
                 ELSE IF ~IsIPAddress(x.v) THEN "LocalHostIPValue"
                 ELSE "ok")], 1)

ValidateStartingPosition(section) ==
    IF section.t # "dict" THEN "AttributeError"
    ELSE IF ~({"X", "Y", "Z"} \subseteq KeySet(section)) THEN "StartingPositionKeys"
    ELSE FirstError([i \in 1..Len(section.v) |->
        LET pos == section.v[i][2]
        IN IF pos.t # "float" THEN "StartingPositionType"
           ELSE IF pos.v > CoordLimit \/ pos.v < -CoordLimit THEN "StartingPositionRange"
           ELSE "ok"], 1)

ValidateController(section) ==
    IF section.t # "dict" THEN "AttributeError"
    ELSE FirstError([i \in 1..Len(section.v) |->
        LET k == section.v[i][1]
            x == section.v[i][2]
        IN IF k \notin {"Name", "Gains"} THEN "ControllerField"
           ELSE IF k = "Name" THEN
                (IF ~PyEq(x, PyStr("SWARMBase")) THEN "ControllerName" ELSE "ok")
           ELSE IF x.t # "dict" THEN "AttributeError"
           ELSE FirstError([j \in 1..Len(x.v) |->
                    IF x.v[j][2].t # "float" THEN "GainType"
                    ELSE IF x.v[j][2].v < 0 \/ x.v[j][2].v > 20000 THEN "GainRange"
                    ELSE "ok"], 1)], 1)

ValidAgentSections ==
    {"Vehicle", "AutoPilot", "Sensors", "Controller", "SoftwareModules",
     "StartingPosition", "VehicleOptions"}

\* the check of the section names of an agent with the lists compared as they come
ValidateAgentSectionNames_Unsorted(agent_options) ==
    IF agent_options.t # "dict" THEN "AttributeError"
    ELSE IF DictKeys(agent_options) #
                <<"Vehicle", "AutoPilot", "Sensors", "Controller", "SoftwareModules",
                  "StartingPosition", "VehicleOptions">>
    THEN "AgentSections"
    ELSE "ok"

\* the check of the section names of an agent: the sorted lists are compared
ValidateAgentSectionNames(agent_options) ==
    IF agent_options.t # "dict" THEN "AttributeError"
    ELSE IF KeySet(agent_options) # ValidAgentSections \/ Len(agent_options.v) # 7
    THEN "AgentSections"
    ELSE "ok"

\* the branch of the loop over an agent's sections, SoftwareModules apart
ValidateAgentSection(section_name, section, agent_options, bound) ==
    CASE section_name = "Vehicle" ->
            [err |-> IF ~PyEq(section, PyStr("Multirotor")) THEN "Vehicle" ELSE "ok",
             baro_bound |-> bound]
      [] section_name = "VehicleOptions" ->
            [err |-> ValidateVehicleOptions(section), baro_bound |-> bound]
      [] section_name = "StartingPosition" ->
            [err |-> ValidateStartingPosition(section), baro_bound |-> bound]
      [] section_name = "AutoPilot" ->
            [err |-> IF ~PyEq(section, PyStr("SWARM")) /\ ~PyEq(section, PyStr("PX4"))
                     THEN "AutoPilot" ELSE "ok",
             baro_bound |-> bound]
      [] section_name = "Sensors" ->
            ValidateSensors(section, DictGet(agent_options, "AutoPilot"), bound)
      [] section_name = "Controller" ->
            [err |-> ValidateController(section), baro_bound |-> bound]
      [] OTHER -> [err |-> "ok", baro_bound |-> bound]

MinAgents == 1

MaxAgents == 5

(***************************************************************************)
(* The settings documents validate_settings_file is run on                 *)
(***************************************************************************)
BaseCamera ==
    PyDict(<< <<"Enabled", PyBool(TRUE)>>, <<"PublishPose", PyBool(TRUE)>>,
              <<"X", PyFloat(0)>>, <<"Y", PyFloat(0)>>, <<"Z", PyFloat(0)>>,
              <<"Settings", PyDict(<< <<"ImageType", PyStr("Scene")>>,
                                      <<"Width", PyInt(640000)>>,
                                      <<"Height", PyInt(480000)>>,
                                      <<"FOV_Degrees", PyFloat(90000)>>,
                                      <<"FramesPerSecond", PyInt(30000)>> >>)>>,
              <<"Roll", PyFloat(0)>>, <<"Pitch", PyFloat(0)>>, <<"Yaw", PyFloat(0)>> >>)

SensorsWithCamera == PyDict(<< <<"Cameras", PyDict(<< <<"cam1", BaseCamera>> >>)>> >>)

SensorsEmpty == PyDict(<< >>)

\* a software module: Algorithm (Level, ClassName, Parameters), Publishes, Subscribes, Parameters
Module(level, class_name, algo_params, subscribes, module_params) ==
    PyDict(<< <<"Algorithm", PyDict(<< <<"Level", level>>,
                                       <<"ClassName", PyStr(class_name)>>,
                                       <<"States", PyList(<< >>)>>,
                                       <<"Parameters", PyDict(algo_params)>>,
                                       <<"InputArgs", PyList(<< >>)>>,
                                       <<"ReturnValues", PyList(<< >>)>> >>)>>,
              <<"Publishes", PyList(<<PyStr("Pose")>>)>>,
              <<"Subscribes", PyList(subscribes)>>,
              <<"Parameters", PyDict(module_params)>> >>)

SubscribeImage(camera) == PyDict(<< <<"Image", PyStr(camera)>> >>)

\* the items tried under Algorithm.Parameters of a Detector module
AlgoParamPool ==
    {<<"threshold", x>> : x \in {PyFloat(1000), PyFloat(3000), PyFloat(999), PyFloat(3001),
                                  PyInt(2000), PyInt(9000), PyStr("fast")}}
    \cup {<<"classes", x>> : x \in {PyInt(3000), PyInt(2000), PyInt(6000), PyFloat(6000)}}
    \cup {<<"mode", x>> : x \in {PyStr("fast"), PyStr("zzz"), PyInt(1000)}}
    \cup {<<"label", x>> : x \in {PyStr("zzz"), PyStr("fast")}}
    \cup {<<"camera_name", x>> : x \in {PyStr("cam1"), PyStr("ghost"), PyInt(1000)}}
    \cup {<<"output_type", x>> : x \in {PyStr("display"), PyStr("images")}}
    \cup {<<"gains", PyDict(<< <<k, x>> >>)>> :
            k \in {"kp", "zz"}, x \in {PyFloat(1000), PyFloat(5000), PyStr("kp")}}
    \cup {<<"tags", PyDict(<< <<k, x>> >>)>> :
            k \in {"a", "zz"}, x \in {PyStr("a"), PyStr("x")}}
    \cup {<<"extras", PyDict(<< <<"zz", PyFloat(1000)>> >>)>>,
          <<"window", PyList(<<PyInt(1000), PyInt(3000)>>)>>,
          <<"window", PyList(<<PyInt(1000)>>)>>,
          <<"window", PyList(<<PyInt(1000), PyFloat(9000)>>)>>,
          <<"bogus", PyFloat(1000)>>}

\* the items tried under the Parameters section of a Detector module
ModuleParamPool ==
    {<<"rate", x>> : x \in {PyFloat(1000), PyFloat(3001), PyInt(2000)}}
    \cup {<<"limits", PyDict(<< <<k, x>> >>)>> :
            k \in {"lo", "zz"}, x \in {PyFloat(1000), PyFloat(5000), PyStr("lo")}}
    \cup {<<"free", PyDict(<< <<"zz", PyStr("x")>> >>)>>, <<"bogus", PyFloat(1000)>>}

GoodDetector ==
    Module(PyInt(1000), "Yolo", << <<"threshold", PyFloat(2000)>> >>, << >>,
           << <<"rate", PyFloat(2000)>> >>)

DetectorPool ==
    {Module(lvl, "Yolo", <<p>>, subs, << >>) :
        lvl \in {PyInt(1000), PyInt(3000)}, p \in AlgoParamPool,
        subs \in {<< >>, <<SubscribeImage("cam1")>>}}
    \cup {Module(PyInt(2000), "Yolo", << >>, << >>, <<q>>) : q \in ModuleParamPool}
    \cup {Module(PyInt(1000), "Yolo", << <<"threshold", PyFloat(999)>>,
                                         <<"mode", PyStr("zzz")>> >>, << >>, << >>),
          Module(PyInt(1000), "Nope", << >>, << >>, << >>),
          Module(PyInt(4000), "Yolo", << >>, << >>, << >>),
          Module(PyInt(1000), "Yolo", << >>, <<SubscribeImage("ghost")>>, << >>),
          Module(PyInt(1000), "Yolo", << >>, <<PyStr("Nope")>>, << >>),
          PyDict(<< <<"Algorithm", PyDict(<< <<"Level", PyInt(1000)>>,
                                             <<"ClassName", PyStr("Yolo")>> >>)>>,
                    <<"Extra", PyList(<< >>)>> >>),
          PyDict(<< <<"Algorithm", PyDict(<< <<"Level", PyInt(1000)>>,
                                             <<"ClassName", PyStr("Yolo")>>,
                                             <<"Parameters",
                                               PyDict(<< <<"camera_name", PyStr("cam1")>> >>)>>
                                          >>)>> >>)}

RecorderPool ==
    {Module(lvl, "Mp4Writer", <<p>>, << >>, << >>) :
        lvl \in {PyInt(1000)},
        p \in {<<"output_type", PyStr("display")>>, <<"output_type", PyStr("video")>>,
               <<"output_type", PyStr("zzz")>>}}
    \cup {Module(PyInt(3000), "Nope", << <<"bogus", PyStr("zzz")>> >>, << >>, << >>)}

Agent(vehicle, sensors, modules) ==
    PyDict(<< <<"Vehicle", PyStr(vehicle)>>,
              <<"AutoPilot", PyStr("SWARM")>>,
              <<"Sensors", sensors>>,
              <<"Controller", PyDict(<< <<"Name", PyStr("SWARMBase")>>,
                                        <<"Gains", PyDict(<< <<"P", PyFloat(1000)>> >>)>> >>)>>,
              <<"SoftwareModules", PyDict(modules)>>,
              <<"StartingPosition", PyDict(<< <<"X", PyFloat(0)>>, <<"Y", PyFloat(0)>>,
                                              <<"Z", PyFloat(0)>> >>)>>,
              <<"VehicleOptions", PyDict(<< >>)>> >>)

GoodAgent == Agent("Multirotor", SensorsWithCamera, << <<"Detector", GoodDetector>> >>)

\* the agents tried when a document has several
AgentPool ==
    {GoodAgent,
     Agent("Rover", SensorsWithCamera, << <<"Detector", GoodDetector>> >>),
     Agent("Multirotor", SensorsWithCamera,
           << <<"Detector", Module(PyInt(1000), "Yolo", << <<"bogus", PyFloat(1000)>> >>,
                                   << >>, << >>)>> >>),
     PyDict(<< <<"Vehicle", PyStr("Multirotor")>>, <<"AutoPilot", PyStr("SWARM")>> >>)}

GoodScenario ==
    PyDict(<< <<"Name", PyStr("DataCollection")>>,
              <<"Options", PyDict(<< <<"LevelNames", PyList(<<PyStr("L1")>>)>> >>)>> >>)

ScenarioPool ==
    {GoodScenario,
     PyDict(<< <<"Options", PyDict(<< <<"LevelNames", PyList(<<PyStr("L1")>>)>> >>)>>,
               <<"Name", PyStr("DataCollection")>> >>),
     PyDict(<< <<"Name", PyStr("Racing")>>,
               <<"Options", PyDict(<< <<"LevelNames", PyList(<<PyStr("L1")>>)>> >>)>> >>)}

GoodEnvironment ==
    PyDict(<< <<"Name", PyStr("Env1")>>, <<"StreamVideo", PyBool(FALSE)>>,
              <<"StartingLevelName", PyStr("L1")>>,
              <<"Options", PyDict(<< <<"TimeOfDay", PyStr("day")>> >>)>> >>)

GoodData == PyDict(<< <<"VehicleState", PyDict(<< <<"Format", PyStr("SWARM")>> >>)>> >>)

IDPool == {PyInt(0), PyStr("0")}

RunLengthPool ==
    {PyFloat(30000), PyFloat(29999), PyFloat(9999000), PyFloat(9999010),
     PyInt(30000), PyInt(10000000), PyStr("30.0")}

\* the orders and selections of top-level keys tried
KeyLayouts ==
    {<<"ID", "RunLength", "SimulationName", "Scenario", "Environment", "Agents">>,
     <<"ID", "SimulationName", "RunLength", "Scenario", "Environment", "Data", "Agents">>,
     <<"Agents", "Environment", "Scenario", "SimulationName", "RunLength", "ID">>,
     <<"RunLength", "SimulationName", "Scenario", "Environment", "Agents">>,
     <<"ID", "RunLength", "Scenario", "Environment", "Agents">>,
     <<"ID", "RunLength", "SimulationName", "Scenario", "Environment">>,
     <<"ID", "RunLength", "SimulationName", "Scenario", "Environment", "Agents", "Notes">>}

\* the document with the given top-level keys, in that order
Document(layout, id, run_length, scenario, agents) ==
    PyDict([i \in 1..Len(layout) |->
        <<layout[i],
          CASE layout[i] = "ID" -> id
            [] layout[i] = "RunLength" -> run_length
            [] layout[i] = "SimulationName" -> PyStr("sim")
            [] layout[i] = "Scenario" -> scenario
            [] layout[i] = "Environment" -> GoodEnvironment
            [] layout[i] = "Data" -> GoodData
            [] layout[i] = "Agents" -> PyDict(agents)
            [] OTHER -> PyStr("notes")>>])

BaseLayout == <<"ID", "RunLength", "SimulationName", "Scenario", "Environment", "Agents">>

AgentNames == <<"Drone1", "Drone2", "Drone3", "Drone4", "Drone5", "Drone6">>

\* the most agents a document of AgentDocs carries
MaxDocAgents == 2

TopDocs ==
    {Document(layout, id, rl, sc, << <<"Drone1", GoodAgent>> >>) :
        layout \in KeyLayouts, id \in IDPool, rl \in RunLengthPool, sc \in ScenarioPool}

ModuleDocs ==
    {Document(BaseLayout, PyInt(0), PyFloat(30000), GoodScenario,
              << <<"Drone1", Agent("Multirotor", sensors, modules)>> >>) :
        sensors \in {SensorsWithCamera, SensorsEmpty},
        modules \in {<< <<"Detector", m>> >> : m \in DetectorPool}
                    \cup {<< <<"Detector", m>>, <<"Recorder", r>> >> :
                            m \in {x \in DetectorPool : Has(x, "Parameters")
                                      /\ Len(DictGet(x, "Parameters").v) = 0},
                            r \in RecorderPool}}

AgentDocs ==
    {Document(BaseLayout, PyInt(0), PyFloat(30000), GoodScenario,
              [i \in 1..Len(ags) |-> <<AgentNames[i], ags[i]>>]) :
        ags \in SeqsUpTo(AgentPool, MaxDocAgents)}

\* documents with zero to six agents, all of them valid or all of them invalid
CountDocs ==
    {Document(BaseLayout, PyInt(0), PyFloat(30000), GoodScenario,
              [i \in 1..n |-> <<AgentNames[i], ag>>]) :
        n \in 0..Len(AgentNames),
        ag \in {GoodAgent, Agent("Rover", SensorsWithCamera, << <<"Detector", GoodDetector>> >>)}}

\* the orders and selections of the sections of an agent tried
SectionLayouts ==
    {<<"Vehicle", "AutoPilot", "Sensors", "Controller", "SoftwareModules",
       "StartingPosition", "VehicleOptions">>,
     <<"VehicleOptions", "StartingPosition", "SoftwareModules", "Controller", "Sensors",
       "AutoPilot", "Vehicle">>,
     <<"Sensors", "Vehicle", "StartingPosition", "AutoPilot", "VehicleOptions",
       "SoftwareModules", "Controller">>,
     <<"Vehicle", "AutoPilot", "Sensors", "Controller", "SoftwareModules",
       "StartingPosition">>,
     <<"Vehicle", "AutoPilot", "Sensors", "Controller", "StartingPosition",
       "VehicleOptions">>,
     <<"Vehicle", "AutoPilot", "Sensors", "Controller", "SoftwareModules",
       "StartingPosition", "VehicleOptions", "Notes">>,
     <<"Vehicle", "AutoPilot", "Sensors", "Controller", "SoftwareModules",
       "StartingPosition", "Payload">>}

GoodStartingPosition ==
    PyDict(<< <<"X", PyFloat(0)>>, <<"Y", PyFloat(0)>>, <<"Z", PyFloat(0)>> >>)

StartingPositionPool ==
    {GoodStartingPosition,
     PyDict(<< <<"Z", PyFloat(0)>>, <<"Y", PyFloat(999000)>>, <<"X", PyFloat(-999000)>> >>),
     PyDict(<< <<"X", PyFloat(0)>>, <<"Y", PyFloat(0)>> >>),
     PyDict(<< <<"X", PyFloat(0)>>, <<"Z", PyFloat(0)>> >>),
     PyDict(<< <<"Y", PyFloat(0)>>, <<"Z", PyFloat(0)>> >>),
     PyDict(<< >>),
     PyDict(<< <<"X", PyFloat(0)>>, <<"Y", PyFloat(0)>>, <<"Z", PyFloat(0)>>,
               <<"W", PyFloat(0)>> >>),
     PyDict(<< <<"Yaw", PyFloat(90000)>>, <<"X", PyFloat(0)>>, <<"Y", PyFloat(0)>>,
               <<"Z", PyFloat(0)>> >>),
     PyDict(<< <<"X", PyFloat(0)>>, <<"Y", PyFloat(0)>>, <<"Z", PyFloat(0)>>,
               <<"W", PyFloat(999010)>> >>),
     PyDict(<< <<"X", PyFloat(0)>>, <<"Y", PyFloat(0)>>, <<"Z", PyFloat(0)>>,
               <<"Frame", PyStr("NED")>> >>),
     PyDict(<< <<"X", PyInt(0)>>, <<"Y", PyFloat(0)>>, <<"Z", PyFloat(0)>> >>),
     PyDict(<< <<"X", PyFloat(0)>>, <<"Y", PyFloat(0)>>, <<"Z", PyFloat(-999010)>> >>)}

\* an agent with the given sections, in that order
AgentWith(layout, autopilot, sensors, start) ==
    PyDict([i \in 1..Len(layout) |->
        <<layout[i],
          CASE layout[i] = "Vehicle" -> PyStr("Multirotor")
            [] layout[i] = "AutoPilot" -> PyStr(autopilot)
            [] layout[i] = "Sensors" -> sensors
            [] layout[i] = "Controller" ->
                  PyDict(<< <<"Name", PyStr("SWARMBase")>>,
                            <<"Gains", PyDict(<< <<"P", PyFloat(1000)>> >>)>> >>)
            [] layout[i] = "SoftwareModules" -> PyDict(<< <<"Detector", GoodDetector>> >>)
            [] layout[i] = "StartingPosition" -> start
            [] layout[i] = "VehicleOptions" -> PyDict(<< >>)
            [] OTHER -> PyStr("notes")>>])

AgentLayout ==
    <<"Vehicle", "AutoPilot", "Sensors", "Controller", "SoftwareModules",
      "StartingPosition", "VehicleOptions">>

\* one agent, its sections laid out in every way tried, with every starting position tried
LayoutDocs ==
    {Document(BaseLayout, PyInt(0), PyFloat(30000), GoodScenario,
              << <<"Drone1", AgentWith(layout, "SWARM", SensorsWithCamera, start)>> >>) :
        layout \in SectionLayouts, start \in StartingPositionPool}

\* a Barometers, Magnetometers, GPS, IMU, AirSpeed or Odometers entry
RateSensor(rate) ==
    PyDict(<< <<"Enabled", PyBool(TRUE)>>, <<"Method", PyStr("Colosseum")>>,
              <<"PublishingRate", rate>> >>)

\* such an entry with the given value of Enabled
RateSensorEnabled(enabled) ==
    PyDict(<< <<"Enabled", enabled>>, <<"Method", PyStr("Colosseum")>>,
              <<"PublishingRate", PyFloat(10000)>> >>)

DistanceSensor(min_distance, max_distance) ==
    PyDict(<< <<"Enabled", PyBool(TRUE)>>, <<"Method", PyStr("Colosseum")>>,
              <<"X", PyFloat(0)>>, <<"Y", PyFloat(0)>>, <<"Z", PyFloat(0)>>,
              <<"Roll", PyFloat(0)>>, <<"Pitch", PyFloat(0)>>, <<"Yaw", PyFloat(0)>>,
              <<"PublishingRate", PyFloat(10000)>>,
              <<"MinDistance", min_distance>>, <<"MaxDistance", max_distance>> >>)

Lidar(settings) ==
    PyDict(<< <<"Enabled", PyBool(TRUE)>>, <<"Method", PyStr("Colosseum")>>,
              <<"X", PyFloat(0)>>, <<"Y", PyFloat(0)>>, <<"Z", PyFloat(0)>>,
              <<"Settings", PyDict(settings)>>,
              <<"Roll", PyFloat(0)>>, <<"Pitch", PyFloat(0)>>, <<"Yaw", PyFloat(0)>>,
              <<"PublishingRate", PyFloat(10000)>>, <<"Hardware", PyStr("VLP16")>> >>)

\* the pairs of distances tried: ordered, equal, inverted, outside their own ranges
DistancePairs ==
    {<<PyFloat(3000), PyFloat(5000)>>, <<PyFloat(5000), PyFloat(3000)>>,
     <<PyFloat(5000), PyFloat(5000)>>, <<PyFloat(200), PyFloat(1000000)>>,
     <<PyFloat(100), PyFloat(5000)>>, <<PyFloat(3000), PyFloat(1000010)>>,
     <<PyInt(3000), PyFloat(5000)>>, <<PyFloat(3000), PyInt(5000)>>,
     <<PyFloat(3000), PyStr("far")>>}

\* the LiDAR settings tried: the two ends of a field of view, in either order
LidarSettingsPool ==
    {<< <<k1, x1>>, <<k2, x2>> >> :
        k1 \in {"VerticalFOVUpper"}, k2 \in {"VerticalFOVLower"},
        x1 \in {PyFloat(15000), PyFloat(-80000), PyFloat(90010)},
        x2 \in {PyFloat(-15000), PyFloat(80000), PyInt(-90000)}}
    \cup {<< <<k1, x1>>, <<k2, x2>> >> :
        k1 \in {"HorizontalFOVStart"}, k2 \in {"HorizontalFOVEnd"},
        x1 \in {PyFloat(-30000), PyFloat(-5000), PyFloat(30000)},
        x2 \in {PyFloat(30000), PyFloat(5000), PyFloat(-30000)}}
    \cup {<< >>,
          << <<"Range", PyFloat(100000)>>, <<"DataFrame", PyStr("SensorLocalFrame")>> >>,
          << <<"Range", PyFloat(100000)>>, <<"NumberOfChannels", PyInt(16000)>> >>,
          << <<"RotationsPerSecond", PyInt(10000)>> >>,
          << <<"PointsPerSecond", PyInt(100000000)>>, <<"Beams", PyInt(1000)>> >>}

\* the sets of sensor types tried with each autopilot
SensorTypeSets ==
    {<< >>, <<"IMU">>, <<"IMU", "Magnetometers">>, <<"IMU", "Barometers">>,
     <<"Magnetometers", "Barometers">>, <<"IMU", "Magnetometers", "Barometers">>,
     <<"Barometers", "Magnetometers", "IMU", "GPS">>,
     <<"GPS", "IMU", "Magnetometers", "AirSpeed">>,
     <<"Barometers", "Odometers">>, <<"Odometers", "Barometers">>, <<"Odometers">>,
     <<"Sonar">>}

RateSensors(types) ==
    PyDict([i \in 1..Len(types) |->
               <<types[i], PyDict(<< <<"s1", RateSensor(PyFloat(10000))>> >>)>>])

SensorsPool ==
    {RateSensors(types) : types \in SensorTypeSets}
    \cup {PyDict(<< <<"IMU", PyDict(<< <<"s1", RateSensor(r)>> >>)>> >>) :
            r \in {PyFloat(150000), PyFloat(150010), PyInt(10000)}}
    \cup {PyDict(<< <<"IMU", PyDict(<< >>)>>, <<"Magnetometers", PyDict(<< >>)>>,
                    <<"Barometers", PyDict(<< >>)>> >>)}
    \cup {PyDict(<< <<sensor_type, PyDict(<< <<"s1", RateSensorEnabled(enabled)>> >>)>> >>) :
            sensor_type \in {"Barometers", "Magnetometers", "GPS", "AirSpeed", "IMU"},
            enabled \in {PyStr("yes"), PyInt(1000), PyBool(FALSE)}}
    \cup {PyDict(<< <<"Barometers", PyDict(<< <<"s1", RateSensor(PyFloat(10000))>> >>)>>,
                    <<"Odometers", PyDict(<< <<"s1", RateSensorEnabled(enabled)>> >>)>> >>) :
            enabled \in {PyStr("yes"), PyInt(1000), PyBool(FALSE)}}

\* one agent with each autopilot and each set of sensors tried
AutoPilotDocs ==
    {Document(BaseLayout, PyInt(0), PyFloat(30000), GoodScenario,
              << <<"Drone1", AgentWith(layout, autopilot, sensors, GoodStartingPosition)>> >>) :
        layout \in {AgentLayout, <<"Sensors", "Vehicle", "StartingPosition", "AutoPilot",
                                   "VehicleOptions", "SoftwareModules", "Controller">>},
        autopilot \in {"SWARM", "PX4", "ArduPilot"}, sensors \in SensorsPool}

\* one agent with a Distance sensor or a LiDAR
RangeSensorDocs ==
    {Document(BaseLayout, PyInt(0), PyFloat(30000), GoodScenario,
              << <<"Drone1", AgentWith(AgentLayout, "SWARM", sensors,
                                       GoodStartingPosition)>> >>) :
        sensors \in {PyDict(<< <<"Distance",
                                 PyDict(<< <<"d1", DistanceSensor(p[1], p[2])>> >>)>> >>) :
                        p \in DistancePairs}
                    \cup {PyDict(<< <<"LiDAR", PyDict(<< <<"l1", Lidar(s)>> >>)>> >>) :
                            s \in LidarSettingsPool}}

GoodGoal == PyDict(<< <<"X", PyFloat(10000)>>, <<"Y", PyFloat(0)>>, <<"Z", PyFloat(-5000)>> >>)

GoalPool ==
    {GoodGoal,
     PyDict(<< <<"X", PyFloat(999000)>>, <<"Y", PyFloat(-999000)>>, <<"Z", PyFloat(0)>> >>),
     PyDict(<< <<"Z", PyFloat(0)>>, <<"Y", PyFloat(0)>>, <<"X", PyFloat(0)>> >>),
     PyDict(<< <<"X", PyFloat(0)>>, <<"Y", PyFloat(0)>> >>),
     PyDict(<< <<"X", PyFloat(0)>>, <<"Y", PyFloat(0)>>, <<"Z", PyFloat(0)>>,
               <<"W", PyFloat(0)>> >>),
     PyDict(<< <<"X", PyInt(0)>>, <<"Y", PyFloat(0)>>, <<"Z", PyFloat(0)>> >>),
     PyDict(<< <<"X", PyFloat(0)>>, <<"Y", PyFloat(999010)>>, <<"Z", PyFloat(0)>> >>),
     PyDict(<< <<"X", PyFloat(0)>>, <<"Y", PyFloat(0)>>, <<"Z", PyFloat(-999010)>> >>),
     PyList(<<PyFloat(0), PyFloat(0), PyFloat(0)>>),
     PyStr("home")}

ScenarioWithGoals(goals) ==
    PyDict(<< <<"Name", PyStr("Navigation")>>,
              <<"Options", PyDict(<< <<"LevelNames", PyList(<<PyStr("L1")>>)>>,
                                     <<"GoalPoint",
                    PyDict([i \in 1..Len(goals) |-> <<AgentNames[i], goals[i]>>])>> >>)>> >>)

\* the most goals a document of GoalDocs carries
MaxGoals == 2

\* one or two agents, with no goal up to MaxGoals goals
GoalDocs ==
    {Document(layout, PyInt(0), PyFloat(30000), ScenarioWithGoals(goals),
              [i \in 1..n |-> <<AgentNames[i], GoodAgent>>]) :
        layout \in {BaseLayout,
                    <<"ID", "RunLength", "SimulationName", "Agents", "Environment",
                      "Scenario">>},
        n \in 1..2, goals \in SeqsUpTo(GoalPool, MaxGoals)}

(***************************************************************************)
(* The settings generator                                                  *)
(***************************************************************************)
\* the answers given to the prompts of generate_new_user_settings_file:
\* run_length a float in [30.0, 9999.0]; view, collect, images, video, state,
\* sensors and camera the index of "Yes" (0) or "No" (1); x a float in
\* [-2.0, 2.0]; width an int in [640, 1280]; modules the names chosen before
\* "Finished"
GeneratorChoices ==
    [run_length : {30000, 9999000}, view : {0, 1}, collect : {0, 1}, images : {0, 1},
     video : {0, 1}, sensors : {0, 1}, camera : {0, 1}, x : {-2000, 0},
     width : {640000}, modules : {<< >>} \cup {<<name>> : name \in ModuleNames}]

\* settings["Data"] after the questions on the data to collect
GeneratedData(c) ==
    PyDict(<< <<"VehicleState", PyDict(<< <<"Format", PyStr("SWARM")>> >>)>> >>
           \o (IF c.collect = 0 /\ c.images = 0
               THEN << <<"Images", PyDict(<< <<"Format", PyStr("PNG")>> >>)>> >>
               ELSE << >>)
           \o (IF c.collect = 0 /\ c.video = 0
               THEN << <<"Video", PyDict(<< <<"Format", PyStr("MP4")>>,
                                            <<"VideoName", PyStr("video")>> >>)>> >>
               ELSE << >>))

\* agent_settings["Sensors"]
GeneratedSensors(c) ==
    IF c.sensors = 0 /\ c.camera = 0
    THEN PyDict(<< <<"Cameras", PyDict(<< <<"Camera0",
            PyDict(<< <<"X", PyFloat(c.x)>>, <<"Y", PyFloat(0)>>, <<"Z", PyFloat(0)>>,
                      <<"Settings", PyDict(<< <<"Width", PyInt(c.width)>>,
                                              <<"Height", PyInt(480000)>> >>)>> >>)>> >>)>> >>)
    ELSE PyDict(<< >>)

\* the rules of the class that the generator cannot prompt for: it reads
\* param["range"] of every rule
RulesWithoutRange(module_name, class_name) ==
    {p \in DOMAIN SupportedModulesFile[module_name].ValidParameters[class_name] :
        "range" \notin DOMAIN SupportedModulesFile[module_name].ValidParameters[class_name][p]}

\* agent_settings when "Finished" is the first choice of module
GeneratedAgent(c) ==
    PyDict(<< <<"Vehicle", PyStr("Multirotor")>>,
              <<"AutoPilot", PyStr("SWARM")>>,
              <<"Sensors", GeneratedSensors(c)>>,
              <<"Controller", PyDict(<< <<"Name", PyStr("SWARMBase")>>,
                                        <<"Gains", PyDict(<< <<"P", PyFloat(450)>>,
                                                             <<"I", PyFloat(0)>>,
                                                             <<"D", PyFloat(50)>> >>)>> >>)>>,
              <<"SoftwareModules", PyDict(<< >>)>> >>)

\* the generator raises and no document is produced: the answer to the
\* question on the view is used as an index into ["Multirotor"]; a module
\* that needs a camera is chosen without one; a rule of the chosen class
\* has no range, which every class of the descriptor has, so that the
\* documents produced have no module
GeneratorRaises(c) ==
    \/ c.view = 1
    \/ \E k \in 1..Len(c.modules) :
          \/ c.modules[k] \in {"VideoRecord", "Detector"}
                /\ ~Has(GeneratedSensors(c), "Cameras")
          \/ RulesWithoutRange(c.modules[k],
                SupportedModulesFile[c.modules[k]].ValidClassNames[1].v) # {}

\* generate_new_user_settings_file: the document returned
generate_new_user_settings_file(c) ==
    PyDict(<< <<"ID", PyInt(0)>>,
              <<"SimulationName", PyStr("sim")>>,
              <<"RunLength", PyFloat(c.run_length)>>,
              <<"Scenario", PyDict(<< <<"Name", PyStr("DataCollection")>>,
                                      <<"Options", PyDict(<< >>)>> >>)>>,
              <<"Environment", PyDict(<< <<"Name", PyNone>>,
                                         <<"StreamVideo", PyBool(c.view = 0)>> >>)>>,
              <<"Data", GeneratedData(c)>>,
              <<"Agents", PyDict(<< <<"Drone1", GeneratedAgent(c)>> >>)>> >>)

\* the documents the generator produces
GeneratedDocs ==
    {generate_new_user_settings_file(c) : c \in {g \in GeneratorChoices : ~GeneratorRaises(g)}}

SettingsInputs ==
    {[doc |-> d, local |-> "True", found |-> f] : d \in TopDocs \cup AgentDocs, f \in BOOLEAN}
    \cup {[doc |-> d, local |-> "True", found |-> TRUE] :
            d \in CountDocs \cup LayoutDocs \cup AutoPilotDocs \cup RangeSensorDocs
                  \cup GoalDocs}
    \cup {[doc |-> d, local |-> l, found |-> TRUE] :
            d \in ModuleDocs, l \in {"unset", "True", "False"}}
    \cup {[doc |-> d, local |-> "True", found |-> TRUE] : d \in GeneratedDocs}

(***************************************************************************)
(* The state machine                                                       *)
(***************************************************************************)
NoDiag == [kind |-> "none", at |-> << >>]

\* the descriptor before validate_software_modules has loaded it
NotLoaded == [ValidModuleParameters |-> << >>, ValidMessageTypes |-> << >>]

vpVars == <<vp_profile, vp_result>>

walkVars == <<supported_modules, pc, key_idx, agent_idx, section_idx, module_idx,
              baro_name_bound, result, diag, examined>>

trajVars == <<trajectory, trajectory_valid>>

clientVars == <<message_id, connected, request>>

waitVars == <<wait_pc, wait_step, received_header, received_bytes, total_bytes, last_message,
              received_message>>

multipartVars == <<mp_pc, chunk_idx, chunk_not_sent, retries, chunk_sends>>

runVars == <<run_op, run_pc, settings_valid, network>>

\* the state of the entry points other than the two validators
otherVars == <<trajVars, clientVars, waitVars, multipartVars, runVars>>

\* no trajectory has been handed over
TrajIdle ==
    /\ trajectory = PyDict(<< >>)
    /\ trajectory_valid = [ret |-> "none", kind |-> "none", warnings |-> << >>]

NoRequest == [op |-> "none", sent |-> "none", id |-> 0, outcome |-> "none"]

\* the client as SWARMClient.__init__ leaves it
ClientIdle ==
    /\ message_id = 0
    /\ connected = FALSE
    /\ request = NoRequest

\* the locals of wait_for_response_packet before its loop
WaitStart ==
    /\ wait_step = "none"
    /\ received_header = FALSE
    /\ received_bytes = 0
    /\ total_bytes = 0
    /\ last_message = [ID |-> 0, Body |-> PyNone]
    /\ received_message = PyNone

WaitIdle == wait_pc = "idle" /\ WaitStart

\* send_multipart_file is not called
MultipartIdle ==
    /\ mp_pc = "idle"
    /\ chunk_idx = 0
    /\ chunk_not_sent = FALSE
    /\ retries = 0
    /\ chunk_sends = 0

\* no simulation is run
RunIdle ==
    /\ run_op = "none"
    /\ run_pc = "idle"
    /\ settings_valid = "none"
    /\ network = << >>

OthersIdle == TrajIdle /\ ClientIdle /\ WaitIdle /\ MultipartIdle /\ RunIdle

WalkStart ==
    /\ supported_modules = NotLoaded
    /\ pc = "idle"
    /\ key_idx = 0
    /\ agent_idx = 0
    /\ section_idx = 0
    /\ module_idx = 0
    /\ baro_name_bound = FALSE
    /\ result = "none"
    /\ diag = NoDiag
    /\ examined = << >>

InitVehicleProfile ==
    /\ call = "validate"
    /\ vp_profile \in VPProfiles
    /\ vp_result = [ret |-> "none", msg |-> "none"]
    /\ settings_file = PyDict(<< >>)
    /\ local = "unset"
    /\ descriptor_found \in BOOLEAN
    /\ WalkStart
    /\ OthersIdle

InitSettings ==
    /\ call = "validate_settings_file"
    /\ vp_profile = << >>
    /\ vp_result = [ret |-> "none", msg |-> "none"]
    /\ \E input \in SettingsInputs :
          /\ settings_file = input.doc
          /\ local = input.local
          /\ descriptor_found = input.found
    /\ WalkStart
    /\ OthersIdle

Init == InitVehicleProfile \/ InitSettings

\* VehicleProfileValidator.validate: the profile file is found, the descriptor file
\* is found or not
validate ==
    /\ call = "validate"
    /\ vp_result.ret = "none"
    /\ vp_result' = IF descriptor_found THEN VPValidateProfile(vp_profile)
                     ELSE VPFail("DescriptorNotFound")
    /\ UNCHANGED <<call, vp_profile, settings_file, local, descriptor_found>>
    /\ UNCHANGED walkVars
    /\ UNCHANGED otherVars

\* a return False that is recorded while the walk goes on
Fail_KeepsWalking(kind, at) ==
    /\ result' = "False"
    /\ pc' = pc
    /\ diag' = [kind |-> kind, at |-> at]

\* return False of validate_settings_file, with the diagnostic printed
Fail(kind, at) ==
    /\ result' = "False"
    /\ pc' = "done"
    /\ diag' = [kind |-> kind, at |-> at]

\* the value list.sort() returns: it sorts in place and returns None
ListSortResult(lst) == "None"

\* key_components of validate_settings_file
KeyComponents(sf) ==
    IF Has(sf, "Data")
    THEN <<"ID", "RunLength", "SimulationName", "Scenario", "Environment", "Agents", "Data">>
    ELSE <<"ID", "RunLength", "SimulationName", "Scenario", "Environment", "Agents">>

\* the assertion on the required components that opens validate_settings_file
CheckRequiredComponents ==
    /\ call = "validate_settings_file"
    /\ pc = "idle"
    /\ IF ListSortResult(DictKeys(settings_file)) = ListSortResult(KeyComponents(settings_file))
       THEN /\ pc' = "sections"
            /\ key_idx' = 1
            /\ UNCHANGED <<result, diag>>
       ELSE /\ Fail("RequiredComponents", << >>)
            /\ UNCHANGED key_idx
    /\ UNCHANGED <<supported_modules, agent_idx, section_idx, module_idx, baro_name_bound,
                   examined>>
    /\ UNCHANGED <<call, settings_file, local, descriptor_found>>
    /\ UNCHANGED otherVars
    /\ UNCHANGED vpVars

\* one pass of the loop over the top-level items, for a key other than Agents
ValidateSection ==
    /\ pc = "sections"
    /\ key_idx <= Len(settings_file.v)
    /\ settings_file.v[key_idx][1] # "Agents"
    /\ LET key == settings_file.v[key_idx][1]
           r == ValidateTopSection(key, settings_file.v[key_idx][2], settings_file)
       IN /\ examined' = Append(examined, <<key>>)
          /\ IF r = "ok"
             THEN /\ key_idx' = key_idx + 1
                  /\ UNCHANGED <<pc, result, diag>>
             ELSE /\ Fail(r, <<key>>)
                  /\ UNCHANGED key_idx
    /\ UNCHANGED <<supported_modules, agent_idx, section_idx, module_idx, baro_name_bound>>
    /\ UNCHANGED <<call, settings_file, local, descriptor_found>>
    /\ UNCHANGED otherVars
    /\ UNCHANGED vpVars

\* the pass of the loop for the key Agents with no upper limit on their number
EnterAgents_NoUpperLimit ==
    /\ pc = "sections"
    /\ key_idx <= Len(settings_file.v)
    /\ settings_file.v[key_idx][1] = "Agents"
    /\ LET options == settings_file.v[key_idx][2]
           numb_agents == Len(options.v)
       IN /\ examined' = Append(examined, <<"Agents">>)
          /\ IF numb_agents < MinAgents
             THEN /\ Fail("AgentCount", <<"Agents">>)
                  /\ UNCHANGED agent_idx
             ELSE /\ pc' = "agents"
                  /\ agent_idx' = 1
                  /\ UNCHANGED <<result, diag>>
    /\ UNCHANGED <<supported_modules, key_idx, section_idx, module_idx, baro_name_bound>>
    /\ UNCHANGED <<call, settings_file, local, descriptor_found>>
    /\ UNCHANGED otherVars
    /\ UNCHANGED vpVars

\* the pass of the loop for the key Agents: the check of the number of agents
EnterAgents ==
    /\ pc = "sections"
    /\ key_idx <= Len(settings_file.v)
    /\ settings_file.v[key_idx][1] = "Agents"
    /\ LET options == settings_file.v[key_idx][2]
           numb_agents == Len(options.v)
       IN /\ examined' = Append(examined, <<"Agents">>)
          /\ IF numb_agents < MinAgents \/ numb_agents > MaxAgents
             THEN /\ Fail("AgentCount", <<"Agents">>)
                  /\ UNCHANGED agent_idx
             ELSE /\ pc' = "agents"
                  /\ agent_idx' = 1
                  /\ UNCHANGED <<result, diag>>
    /\ UNCHANGED <<supported_modules, key_idx, section_idx, module_idx, baro_name_bound>>
    /\ UNCHANGED <<call, settings_file, local, descriptor_found>>
    /\ UNCHANGED otherVars
    /\ UNCHANGED vpVars

\* return True at the end of the loop over the top-level items
ReturnTrue ==
    /\ pc = "sections"
    /\ key_idx > Len(settings_file.v)
    /\ result' = "True"
    /\ pc' = "done"
    /\ UNCHANGED <<supported_modules, key_idx, agent_idx, section_idx, module_idx,
                   baro_name_bound, diag, examined>>
    /\ UNCHANGED <<call, settings_file, local, descriptor_found>>
    /\ UNCHANGED otherVars
    /\ UNCHANGED vpVars

Agents == DictGet(settings_file, "Agents")

\* one pass of the loop over the agents: the check of the agent's section names
CheckAgentSections ==
    /\ pc = "agents"
    /\ agent_idx <= Len(Agents.v)
    /\ LET agent == Agents.v[agent_idx][1]
           r == ValidateAgentSectionNames(Agents.v[agent_idx][2])
       IN /\ examined' = Append(examined, <<agent>>)
          /\ IF r = "ok"
             THEN /\ pc' = "agent_sections"
                  /\ section_idx' = 1
                  /\ UNCHANGED <<result, diag>>
             ELSE /\ Fail(r, <<agent>>)
                  /\ UNCHANGED section_idx
    /\ UNCHANGED <<supported_modules, key_idx, agent_idx, module_idx, baro_name_bound>>
    /\ UNCHANGED <<call, settings_file, local, descriptor_found>>
    /\ UNCHANGED otherVars
    /\ UNCHANGED vpVars

\* the end of the loop over the agents: the section Agents is valid
LeaveAgents ==
    /\ pc = "agents"
    /\ agent_idx > Len(Agents.v)
    /\ pc' = "sections"
    /\ key_idx' = key_idx + 1
    /\ UNCHANGED <<supported_modules, agent_idx, section_idx, module_idx, baro_name_bound,
                   result, diag, examined>>
    /\ UNCHANGED <<call, settings_file, local, descriptor_found>>
    /\ UNCHANGED otherVars
    /\ UNCHANGED vpVars

\* one pass of the loop over an agent's sections, for a section other than SoftwareModules
ValidateAgentSectionStep ==
    /\ pc = "agent_sections"
    /\ section_idx <= Len(Agents.v[agent_idx][2].v)
    /\ Agents.v[agent_idx][2].v[section_idx][1] # "SoftwareModules"
    /\ LET agent == Agents.v[agent_idx][1]
           agent_options == Agents.v[agent_idx][2]
           section_name == agent_options.v[section_idx][1]
           r == ValidateAgentSection(section_name, agent_options.v[section_idx][2],
                                     agent_options, baro_name_bound)
       IN /\ examined' = Append(examined, <<agent, section_name>>)
          /\ baro_name_bound' = r.baro_bound
          /\ IF r.err = "ok"
             THEN /\ section_idx' = section_idx + 1
                  /\ UNCHANGED <<pc, result, diag>>
             ELSE /\ Fail(r.err, <<agent, section_name>>)
                  /\ UNCHANGED section_idx
    /\ UNCHANGED <<supported_modules, key_idx, agent_idx, module_idx>>
    /\ UNCHANGED <<call, settings_file, local, descriptor_found>>
    /\ UNCHANGED otherVars
    /\ UNCHANGED vpVars

\* the pass for the section SoftwareModules: validate_software_modules is entered
\* and loads the descriptor; the FileNotFoundError of open() is caught by the
\* except Exception of validate_settings_file
EnterSoftwareModules ==
    /\ pc = "agent_sections"
    /\ section_idx <= Len(Agents.v[agent_idx][2].v)
    /\ Agents.v[agent_idx][2].v[section_idx][1] = "SoftwareModules"
    /\ examined' = Append(examined, <<Agents.v[agent_idx][1], "SoftwareModules">>)
    /\ IF descriptor_found
       THEN /\ supported_modules' = SupportedModulesFile
            /\ pc' = "modules"
            /\ module_idx' = 1
            /\ UNCHANGED <<result, diag>>
       ELSE /\ Fail("FileNotFoundError", <<Agents.v[agent_idx][1], "SoftwareModules">>)
            /\ UNCHANGED <<supported_modules, module_idx>>
    /\ UNCHANGED <<key_idx, agent_idx, section_idx, baro_name_bound>>
    /\ UNCHANGED <<call, settings_file, local, descriptor_found>>
    /\ UNCHANGED otherVars
    /\ UNCHANGED vpVars

\* the end of the loop over an agent's sections
LeaveAgent ==
    /\ pc = "agent_sections"
    /\ section_idx > Len(Agents.v[agent_idx][2].v)
    /\ pc' = "agents"
    /\ agent_idx' = agent_idx + 1
    /\ UNCHANGED <<supported_modules, key_idx, section_idx, module_idx, baro_name_bound,
                   result, diag, examined>>
    /\ UNCHANGED <<call, settings_file, local, descriptor_found>>
    /\ UNCHANGED otherVars
    /\ UNCHANGED vpVars

Modules == Agents.v[agent_idx][2].v[section_idx][2]

\* one pass of the loop of validate_software_modules
ValidateModuleStep ==
    /\ pc = "modules"
    /\ module_idx <= Len(Modules.v)
    /\ LET agent == Agents.v[agent_idx][1]
           module_name == Modules.v[module_idx][1]
           r == ValidateModule(module_name, Modules.v[module_idx][2],
                               DictGet(Agents.v[agent_idx][2], "Sensors"),
                               supported_modules, local)
       IN /\ examined' = Append(examined, <<agent, "SoftwareModules", module_name>>)
          /\ supported_modules' = r.desc
          /\ IF r.err = "ok"
             THEN /\ module_idx' = module_idx + 1
                  /\ UNCHANGED <<pc, result, diag>>
             ELSE /\ Fail(r.err, <<agent, "SoftwareModules", module_name, r.at>>)
                  /\ UNCHANGED module_idx
    /\ UNCHANGED <<key_idx, agent_idx, section_idx, baro_name_bound>>
    /\ UNCHANGED <<call, settings_file, local, descriptor_found>>
    /\ UNCHANGED otherVars
    /\ UNCHANGED vpVars

\* return True of validate_software_modules
LeaveSoftwareModules ==
    /\ pc = "modules"
    /\ module_idx > Len(Modules.v)
    /\ pc' = "agent_sections"
    /\ section_idx' = section_idx + 1
    /\ UNCHANGED <<supported_modules, key_idx, agent_idx, module_idx, baro_name_bound,
                   result, diag, examined>>
    /\ UNCHANGED <<call, settings_file, local, descriptor_found>>
    /\ UNCHANGED otherVars
    /\ UNCHANGED vpVars

Next ==
    \/ validate
    \/ CheckRequiredComponents
    \/ ValidateSection
    \/ EnterAgents
    \/ ReturnTrue
    \/ CheckAgentSections
    \/ LeaveAgents
    \/ ValidateAgentSectionStep
    \/ EnterSoftwareModules
    \/ LeaveAgent
    \/ ValidateModuleStep
    \/ LeaveSoftwareModules

Spec == Init /\ [][Next]_vars

(***************************************************************************)
(* Properties                                                              *)
(***************************************************************************)
RequiredKeys == {"ID", "RunLength", "SimulationName", "Scenario", "Environment", "Agents"}

\* validate_settings_file has returned
SettingsDone == call = "validate_settings_file" /\ pc = "done"

\* VehicleProfileValidator.validate has returned or raised
VPDone == call = "validate" /\ vp_result.ret # "none"

IsPrefix(s, t) == Len(s) <= Len(t) /\ \A i \in 1..Len(s) : s[i] = t[i]

(***************************************************************************)
(* The leaves of a vehicle profile                                         *)
(***************************************************************************)
VPIsSection(name) == name \in SeqToSet(VPValidParams.ValidSubSections)

VPIsSubSection(name, sub) ==
    /\ "ValidSubSections" \in DOMAIN VPValidParams[name]
    /\ sub \in SeqToSet(VPValidParams[name].ValidSubSections)

VPLeaf(sub, subsub, name, value) ==
    [sub |-> sub, subsub |-> subsub, name |-> name, value |-> value]

\* every leaf of the profile, with the names of the subsections above it
\* ("None" where there is none)
VPLeaves(profile) ==
    UNION {LET n == profile[i][1]
               x == profile[i][2]
           IN IF ~VPIsSection(n) THEN {VPLeaf("None", "None", n, x)}
              ELSE IF x.t # "dict" THEN {}
              ELSE UNION {LET sn == x.v[j][1]
                              sx == x.v[j][2]
                          IN IF ~VPIsSubSection(n, sn) THEN {VPLeaf(n, "None", sn, sx)}
                             ELSE IF sx.t # "dict" THEN {}
                             ELSE {VPLeaf(n, sn, sx.v[k][1], sx.v[k][2]) :
                                      k \in 1..Len(sx.v)} : j \in 1..Len(x.v)} :
           i \in 1..Len(profile)}

NoLeaf == [none |-> TRUE]

\* the leaf validate() meets first, NoLeaf when the first item of the profile
\* holds none
VPFirstLeaf(profile) ==
    IF Len(profile) = 0 THEN NoLeaf
    ELSE LET n == profile[1][1]
             x == profile[1][2]
         IN IF ~VPIsSection(n) THEN VPLeaf("None", "None", n, x)
            ELSE IF x.t # "dict" \/ Len(x.v) = 0 THEN NoLeaf
            ELSE LET sn == x.v[1][1]
                     sx == x.v[1][2]
                 IN IF ~VPIsSubSection(n, sn) THEN VPLeaf(n, "None", sn, sx)
                    ELSE IF sx.t # "dict" \/ Len(sx.v) = 0 THEN NoLeaf
                    ELSE VPLeaf(n, sn, sx.v[1][1], sx.v[1][2])

IsLeaf(leaf) == "none" \notin DOMAIN leaf

\* the rules of the descriptor at the depth of a leaf
VPRulesAt(leaf) ==
    IF leaf.sub = "None" THEN VPValidParams
    ELSE IF leaf.subsub = "None" THEN VPValidParams[leaf.sub]
    ELSE VPValidParams[leaf.sub][leaf.subsub]

\* the name of the leaf has no entry in the descriptor at its depth
VPAbsent(leaf) == leaf.name \notin DOMAIN VPRulesAt(leaf)

\* the descriptor is loaded and the name of the leaf resolves to a rule in it
VPHasRule(leaf) ==
    /\ descriptor_found
    /\ ~VPAbsent(leaf)
    /\ leaf.name # "ValidSubSections"
    /\ "Type" \in DOMAIN VPRulesAt(leaf)[leaf.name]

VPRuleOf(leaf) == VPRulesAt(leaf)[leaf.name]

\* the profile is one leaf and nothing else
VPSingleLeaf(profile) ==
    /\ Len(profile) = 1
    /\ IsLeaf(VPFirstLeaf(profile))
    /\ VPLeaves(profile) = {VPFirstLeaf(profile)}

(***************************************************************************)
(* The software modules of a settings document                             *)
(***************************************************************************)
AgentItems ==
    IF call = "validate_settings_file" /\ Has(settings_file, "Agents")
    THEN DictGet(settings_file, "Agents").v ELSE << >>

ModuleItems(agent_options) ==
    IF Has(agent_options, "SoftwareModules")
    THEN DictGet(agent_options, "SoftwareModules").v ELSE << >>

\* every software module of the document
AllModules ==
    UNION {{[agent |-> AgentItems[a][1], options |-> AgentItems[a][2],
             name |-> ModuleItems(AgentItems[a][2])[m][1],
             settings |-> ModuleItems(AgentItems[a][2])[m][2]] :
                m \in 1..Len(ModuleItems(AgentItems[a][2]))} :
           a \in 1..Len(AgentItems)}

\* a module of Level 1 or 2: Level 3 modules are passed unexamined
Checked(m) ==
    /\ Has(m.settings, "Algorithm")
    /\ Has(DictGet(m.settings, "Algorithm"), "Level")
    /\ IsInstanceInt(DictGet(DictGet(m.settings, "Algorithm"), "Level"))
    /\ Num(DictGet(DictGet(m.settings, "Algorithm"), "Level")) \in {1000, 2000}

CheckedModules == {m \in AllModules : Checked(m)}

AlgoParamItems(m) ==
    IF Has(m.settings, "Algorithm")
       /\ Has(DictGet(m.settings, "Algorithm"), "Parameters")
    THEN DictGet(DictGet(m.settings, "Algorithm"), "Parameters").v ELSE << >>

ModuleParamItems(m) ==
    IF Has(m.settings, "Parameters") THEN DictGet(m.settings, "Parameters").v ELSE << >>

\* the descriptor file has rules for the class of the module
HasAlgoRules(m) ==
    /\ m.name \in ModuleNames
    /\ Has(m.settings, "Algorithm")
    /\ Has(DictGet(m.settings, "Algorithm"), "ClassName")
    /\ DictGet(DictGet(m.settings, "Algorithm"), "ClassName").t = "str"
    /\ DictGet(DictGet(m.settings, "Algorithm"), "ClassName").v
          \in DOMAIN SupportedModulesFile[m.name].ValidParameters

\* the rules of the descriptor file for Algorithm.Parameters of the module
AlgoRulesOf(m) ==
    SupportedModulesFile[m.name].ValidParameters[
        DictGet(DictGet(m.settings, "Algorithm"), "ClassName").v]

\* the rules of the descriptor file for the Parameters section of the module
ModuleRulesOf(m) == SupportedModulesFile[m.name].ValidModuleParameters

\* the module and the parameter a failed walk stopped at
StoppedAtParam(m, p) ==
    /\ SettingsDone
    /\ result = "False"
    /\ Len(diag.at) = 4
    /\ diag.at = <<m.agent, "SoftwareModules", m.name, p>>

\* C1: validate_settings_file returns True only for a document whose top-level
\* keys are exactly ID, RunLength, SimulationName, Scenario, Environment and
\* Agents, with Data as the one optional key: a document that omits a required
\* key or carries another key is never accepted.
C1_ExactKeySet ==
    (SettingsDone /\ result = "True") =>
        KeySet(settings_file) \in {RequiredKeys, RequiredKeys \cup {"Data"}}

\* C2: fail-fast.  The step that meets the first violation returns False with
\* that diagnostic; from then on nothing more is examined and the result stays
\* False, and a diagnostic is only ever held together with the result False.
C2_FailFast ==
    [][/\ (diag.kind # "none") => result = "False"
       /\ (result = "False") =>
              (result' = "False" /\ examined' = examined /\ diag' = diag)
       /\ (result # "False" /\ diag'.kind # "none") =>
              (/\ result' = "False"
               /\ pc' = "done"
               /\ Len(examined') > 0 => IsPrefix(examined'[Len(examined')], diag'.at))]_vars

\* a walk stopped at ID while the RunLength after it is invalid too and was
\* never examined
C2_Witness ==
    /\ SettingsDone
    /\ result = "False"
    /\ diag.at = <<"ID">>
    /\ Has(settings_file, "RunLength")
    /\ ValidateRunLength(DictGet(settings_file, "RunLength")) # "ok"
    /\ <<"RunLength">> \notin SeqToSet(examined)

\* every setting key, algorithm parameter and module parameter of the module
\* has an entry in the descriptor file
ModuleResolves(m) ==
    /\ \A i \in 1..Len(m.settings.v) :
          PyIn(PyStr(m.settings.v[i][1]), SupportedModulesFile.ValidModuleParameters)
    /\ HasAlgoRules(m)
    /\ \A i \in 1..Len(AlgoParamItems(m)) :
          AlgoParamItems(m)[i][1] \in DOMAIN AlgoRulesOf(m)
    /\ \A i \in 1..Len(ModuleParamItems(m)) :
          ModuleParamItems(m)[i][1] \in DOMAIN ModuleRulesOf(m)

WronglyTyped(m, p) ==
    \/ /\ HasAlgoRules(m)
       /\ p \in DOMAIN AlgoRulesOf(m)
       /\ \E i \in 1..Len(AlgoParamItems(m)) :
             /\ AlgoParamItems(m)[i][1] = p
             /\ AlgoParamItems(m)[i][2].t # AlgoRulesOf(m)[p].type
    \/ /\ m.name \in ModuleNames
       /\ p \in DOMAIN ModuleRulesOf(m)
       /\ \E i \in 1..Len(ModuleParamItems(m)) :
             /\ ModuleParamItems(m)[i][1] = p
             /\ ModuleParamItems(m)[i][2].t # ModuleRulesOf(m)[p].type

\* C4: type-check precedence.  When the leaf validate() meets first has a type
\* other than its rule's, the failure is the type mismatch, whatever its value;
\* when validate_settings_file stops at a module parameter whose type differs
\* from its rule's, the diagnostic is the type mismatch and no range, entry or
\* field diagnostic.
C4_TypeFirst ==
    /\ (/\ VPDone
        /\ IsLeaf(VPFirstLeaf(vp_profile))
        /\ VPHasRule(VPFirstLeaf(vp_profile))
        /\ VPFirstLeaf(vp_profile).value.t # VPRuleOf(VPFirstLeaf(vp_profile)).Type) =>
           vp_result = VPFail("TypeMismatch")
    /\ \A m \in CheckedModules :
          (StoppedAtParam(m, diag.at[4]) /\ WronglyTyped(m, diag.at[4])) =>
              diag.kind = "TypeMismatch"

\* an int given for the float Mass, and outside the range of Mass as well
C4_Witness ==
    /\ VPDone
    /\ IsLeaf(VPFirstLeaf(vp_profile))
    /\ VPFirstLeaf(vp_profile).name = "Mass"
    /\ VPFirstLeaf(vp_profile).value.t = "int"
    /\ VPFirstLeaf(vp_profile).value.v > VPValidParams.Mass.Max
    /\ vp_result = VPFail("TypeMismatch")

\* a number meets a numeric rule: inside [min, max], and among the valid
\* entries when the rule lists some
MeetsNumeric(x, lo, hi, has_entries, entries) ==
    /\ lo <= x.v
    /\ x.v <= hi
    /\ has_entries => PyIn(x, entries)

\* C5: the numeric rule, for both validators alike.  An accepted vehicle
\* profile and an accepted settings document hold only numeric parameters
\* that lie in [min, max] and, where the rule lists valid entries, are one
\* of them.
C5_NumericRule ==
    /\ (VPDone /\ vp_result.ret = "True") =>
          \A leaf \in VPLeaves(vp_profile) :
              (VPHasRule(leaf) /\ VPRuleOf(leaf).Type \in {"int", "float"}) =>
                  MeetsNumeric(leaf.value, VPRuleOf(leaf).Min, VPRuleOf(leaf).Max,
                               "ValidEntries" \in DOMAIN VPRuleOf(leaf),
                               IF "ValidEntries" \in DOMAIN VPRuleOf(leaf)
                               THEN VPRuleOf(leaf).ValidEntries ELSE << >>)
    /\ (SettingsDone /\ result = "True") =>
          \A m \in CheckedModules :
              \A i \in 1..Len(AlgoParamItems(m)) :
                  LET x == AlgoParamItems(m)[i][2]
                      rule == AlgoRulesOf(m)[AlgoParamItems(m)[i][1]]
                  IN x.t \in {"int", "float"} =>
                        MeetsNumeric(x, rule.range[1], rule.range[2],
                                     "valid_entries" \in DOMAIN rule,
                                     IF "valid_entries" \in DOMAIN rule
                                     THEN rule.valid_entries ELSE << >>)

\* C6: RunLength boundary.  A RunLength of exactly 30.0 or exactly 9999.0 is
\* never what validate_settings_file stops at, and a document whose RunLength
\* is a number below 30.0 or above 9999.0 gets the result False.
C6_RunLengthBoundary ==
    (SettingsDone /\ Has(settings_file, "RunLength")
       /\ DictGet(settings_file, "RunLength").t \in {"int", "float"}) =>
        LET run_length == DictGet(settings_file, "RunLength").v
        IN /\ run_length \in {30000, 9999000} => diag.at # <<"RunLength">>
           /\ (run_length < 30000 \/ run_length > 9999000) => result = "False"
           /\ (run_length >= 30000 /\ run_length <= 9999000) => diag.at # <<"RunLength">>

\* a document with RunLength 9999.0 is accepted
C6_Witness ==
    /\ SettingsDone
    /\ result = "True"
    /\ <<"RunLength">> \in SeqToSet(examined)
    /\ DictGet(settings_file, "RunLength") = PyFloat(9999000)

\* the rule of the descriptor file lists the wildcard alone
IsWildcard(entries) == entries = <<PyStr("*")>>

\* C7: wildcard.  A vehicle profile that is one string leaf under a rule whose
\* valid entries are exactly ["*"] is accepted, and validate_settings_file never
\* stops at a string algorithm parameter whose rule in the descriptor file has
\* the valid entries ["*"] because of the parameter's entry.
C7_Wildcard ==
    /\ (/\ VPDone
        /\ VPSingleLeaf(vp_profile)
        /\ VPHasRule(VPFirstLeaf(vp_profile))
        /\ VPRuleOf(VPFirstLeaf(vp_profile)).Type = "str"
        /\ VPFirstLeaf(vp_profile).value.t = "str"
        /\ IsWildcard(VPRuleOf(VPFirstLeaf(vp_profile)).ValidEntries)) =>
           vp_result.ret = "True"
    /\ \A m \in CheckedModules :
          (/\ StoppedAtParam(m, diag.at[4])
           /\ HasAlgoRules(m)
           /\ diag.at[4] \in DOMAIN AlgoRulesOf(m)
           /\ AlgoRulesOf(m)[diag.at[4]].type = "str"
           /\ IsWildcard(AlgoRulesOf(m)[diag.at[4]].valid_entries)
           /\ \E i \in 1..Len(AlgoParamItems(m)) :
                 /\ AlgoParamItems(m)[i][1] = diag.at[4]
                 /\ AlgoParamItems(m)[i][2].t = "str") =>
              diag.kind # "InvalidEntry"

\* C8: string enum violation.  When the leaf validate() meets first is a string
\* outside the valid entries of its rule, and the rule is no wildcard,
\* validate() returns False: it neither accepts nor raises.  An accepted
\* settings document holds no string algorithm parameter outside the valid
\* entries of a rule that is no wildcard.
C8_StringEnum ==
    /\ (/\ VPDone
        /\ IsLeaf(VPFirstLeaf(vp_profile))
        /\ VPHasRule(VPFirstLeaf(vp_profile))
        /\ VPRuleOf(VPFirstLeaf(vp_profile)).Type = "str"
        /\ VPFirstLeaf(vp_profile).value.t = "str"
        /\ ~IsWildcard(VPRuleOf(VPFirstLeaf(vp_profile)).ValidEntries)
        /\ ~PyIn(VPFirstLeaf(vp_profile).value,
                 VPRuleOf(VPFirstLeaf(vp_profile)).ValidEntries)) =>
           vp_result.ret = "False"
    /\ (SettingsDone /\ result = "True") =>
          \A m \in CheckedModules :
              \A i \in 1..Len(AlgoParamItems(m)) :
                  LET x == AlgoParamItems(m)[i][2]
                      rule == AlgoRulesOf(m)[AlgoParamItems(m)[i][1]]
                  IN (x.t = "str" /\ ~IsWildcard(rule.valid_entries)) =>
                        PyIn(x, rule.valid_entries)

\* a mapping meets a mapping rule: every key among valid_fields unless the
\* wildcard is one of them, every value of type field_data_type, every number
\* inside field_range
MeetsMapping(x, rule) ==
    \A i \in 1..Len(x.v) :
        /\ PyIn(PyStr("*"), rule.valid_fields) \/ PyIn(PyStr(x.v[i][1]), rule.valid_fields)
        /\ ~PyIn(PyStr("*"), rule.valid_fields) =>
              /\ x.v[i][2].t = rule.field_data_type
              /\ x.v[i][2].t \in {"int", "float"} =>
                    (rule.field_range[1] <= x.v[i][2].v /\ x.v[i][2].v <= rule.field_range[2])

\* C9: mapping rule.  An accepted settings document holds, under
\* Algorithm.Parameters and under the module-level Parameters alike, only
\* mappings whose every key is one of the rule's valid_fields (unless the
\* wildcard is among them), whose values have the type field_data_type and
\* whose numbers lie in field_range.
C9_MappingRule ==
    (SettingsDone /\ result = "True") =>
        \A m \in CheckedModules :
            /\ \A i \in 1..Len(AlgoParamItems(m)) :
                  AlgoParamItems(m)[i][2].t = "dict" =>
                      MeetsMapping(AlgoParamItems(m)[i][2],
                                   AlgoRulesOf(m)[AlgoParamItems(m)[i][1]])
            /\ \A i \in 1..Len(ModuleParamItems(m)) :
                  ModuleParamItems(m)[i][2].t = "dict" =>
                      MeetsMapping(ModuleParamItems(m)[i][2],
                                   ModuleRulesOf(m)[ModuleParamItems(m)[i][1]])

\* the camera v is a key of the agent's Sensors.Cameras and the module's
\* Subscribes holds an entry {Image: v}
CameraReferenced(m, v) ==
    /\ Has(m.options, "Sensors")
    /\ Has(DictGet(m.options, "Sensors"), "Cameras")
    /\ v.t = "str"
    /\ v.v \in KeySet(DictGet(DictGet(m.options, "Sensors"), "Cameras"))
    /\ Has(m.settings, "Subscribes")
    /\ \E j \in 1..Len(DictGet(m.settings, "Subscribes").v) :
          LET subscription == DictGet(m.settings, "Subscribes").v[j]
          IN /\ subscription.t = "dict"
             /\ Has(subscription, "Image")
             /\ DictGet(subscription, "Image") = v

AtModule == pc = "modules" /\ module_idx <= Len(Modules.v)

\* a module of a supported name whose Algorithm.Level is the int 3
IsLevel3(module_name, settings) ==
    /\ module_name \in ModuleNames
    /\ Has(settings, "Algorithm")
    /\ Has(DictGet(settings, "Algorithm"), "Level")
    /\ DictGet(DictGet(settings, "Algorithm"), "Level") = PyInt(3000)

\* C11: Level 3 bypass.  When the loop of validate_software_modules is at a
\* module whose Algorithm.Level is 3, the pass goes on to the next module with
\* no failure and no diagnostic, whatever the module's class name and
\* parameters are: the walk still returns True when the rest is valid.
C11_Level3Bypass ==
    [][(AtModule /\ IsLevel3(Modules.v[module_idx][1], Modules.v[module_idx][2])) =>
          /\ pc' = "modules"
          /\ module_idx' = module_idx + 1
          /\ result' = result
          /\ diag' = diag
          /\ supported_modules' = supported_modules]_vars

\* an accepted document with a Level 3 module of an unknown class and an unknown parameter
C11_Witness ==
    /\ SettingsDone
    /\ result = "True"
    /\ \E m \in AllModules :
          /\ IsLevel3(m.name, m.settings)
          /\ ~PyIn(DictGet(DictGet(m.settings, "Algorithm"), "ClassName"),
                   SupportedModulesFile[m.name].ValidClassNames)
          /\ \E i \in 1..Len(AlgoParamItems(m)) : AlgoParamItems(m)[i][1] = "bogus"

(***************************************************************************)
(* Sensors                                                                 *)
(***************************************************************************)
\* the entries of the given sensor type, over every agent of the document
SensorEntries(sensor_type) ==
    UNION {IF Has(AgentItems[a][2], "Sensors")
              /\ Has(DictGet(AgentItems[a][2], "Sensors"), sensor_type)
              /\ DictGet(DictGet(AgentItems[a][2], "Sensors"), sensor_type).t = "dict"
           THEN {DictGet(DictGet(AgentItems[a][2], "Sensors"), sensor_type).v[i][2] :
                    i \in 1..Len(DictGet(DictGet(AgentItems[a][2], "Sensors"),
                                         sensor_type).v)}
           ELSE {} : a \in 1..Len(AgentItems)}

\* the mapping carries both ends of a pair of bounds, and the upper end is below the lower
Inverted(options, lower, upper) ==
    /\ Has(options, lower)
    /\ Has(options, upper)
    /\ IsNumber(DictGet(options, lower))
    /\ IsNumber(DictGet(options, upper))
    /\ Num(DictGet(options, upper)) < Num(DictGet(options, lower))

\* C12: paired bounds.  An accepted document has no Distance sensor whose
\* MaxDistance is below its MinDistance and no LiDAR whose Settings have
\* VerticalFOVUpper below VerticalFOVLower or HorizontalFOVEnd below
\* HorizontalFOVStart.
C12_PairedBounds ==
    (SettingsDone /\ result = "True") =>
        /\ \A d \in SensorEntries("Distance") : ~Inverted(d, "MinDistance", "MaxDistance")
        /\ \A l \in SensorEntries("LiDAR") :
              (Has(l, "Settings") /\ DictGet(l, "Settings").t = "dict") =>
                  /\ ~Inverted(DictGet(l, "Settings"), "VerticalFOVLower", "VerticalFOVUpper")
                  /\ ~Inverted(DictGet(l, "Settings"), "HorizontalFOVStart",
                               "HorizontalFOVEnd")

(***************************************************************************)
(* Agents                                                                  *)
(***************************************************************************)
\* the walk has been through the check of the top-level key or agent named
Examined(at) == at \in SeqToSet(examined)

\* C13: agent count.  A document whose Agents section has no entry or more
\* than 5 entries never gets the result True; when the walk reaches Agents it
\* stops there, before any agent is looked at, whether the agents are valid
\* or not.  The count check stops no document with 1 to 5 agents.
C13_AgentCount ==
    call = "validate_settings_file" =>
        /\ (Has(settings_file, "Agents") /\ (Len(AgentItems) < 1 \/ Len(AgentItems) > 5)) =>
              /\ result # "True"
              /\ Examined(<<"Agents">>) =>
                    /\ pc = "done"
                    /\ diag = [kind |-> "AgentCount", at |-> <<"Agents">>]
                    /\ examined[Len(examined)] = <<"Agents">>
        /\ diag.kind = "AgentCount" => (Len(AgentItems) < 1 \/ Len(AgentItems) > 5)
        /\ (Examined(<<"Agents">>) /\ Len(AgentItems) \in 1..5) =>
              (pc = "done" => examined[Len(examined)] # <<"Agents">>)

\* six agents, every one of them valid, are refused at the count
C13_Witness ==
    /\ SettingsDone
    /\ Len(AgentItems) = 6
    /\ \A a \in 1..Len(AgentItems) : AgentItems[a][2] = GoodAgent
    /\ result = "False"
    /\ diag.kind = "AgentCount"

\* the agent of the given name
AgentNamed(name) ==
    (CHOOSE a \in {AgentItems[i] : i \in 1..Len(AgentItems)} : a[1] = name)[2]

\* the section names of the agent are the seven required ones, in any order
HasRequiredSections(agent_options) ==
    KeySet(agent_options) =
        {"Vehicle", "AutoPilot", "Sensors", "Controller", "SoftwareModules",
         "StartingPosition", "VehicleOptions"}

\* C14: agent sections.  The walk stops at an agent with the diagnostic on
\* its sections exactly when the set of the agent's section names is not
\* {Vehicle, AutoPilot, Sensors, Controller, SoftwareModules, StartingPosition,
\* VehicleOptions}, whatever the order of the sections; an accepted document
\* has only agents with exactly these sections.
C14_AgentSections ==
    call = "validate_settings_file" =>
        /\ \A a \in 1..Len(AgentItems) :
              (Examined(<<AgentItems[a][1]>>) /\ ~HasRequiredSections(AgentItems[a][2])) =>
                  /\ pc = "done"
                  /\ result = "False"
                  /\ diag = [kind |-> "AgentSections", at |-> <<AgentItems[a][1]>>]
        /\ diag.kind = "AgentSections" => ~HasRequiredSections(AgentNamed(diag.at[1]))
        /\ result = "True" =>
              \A a \in 1..Len(AgentItems) : HasRequiredSections(AgentItems[a][2])

\* an accepted document whose agent lists the seven sections in another order
C14_Witness ==
    /\ SettingsDone
    /\ result = "True"
    /\ \E a \in 1..Len(AgentItems) :
          /\ HasRequiredSections(AgentItems[a][2])
          /\ DictKeys(AgentItems[a][2])[1] = "VehicleOptions"
          /\ Examined(<<AgentItems[a][1]>>)

\* C15: starting position.  An accepted document has only agents whose
\* StartingPosition has the keys X, Y and Z and no other key.
C15_StartingPositionExact ==
    (SettingsDone /\ result = "True") =>
        \A a \in 1..Len(AgentItems) :
            KeySet(DictGet(AgentItems[a][2], "StartingPosition")) = {"X", "Y", "Z"}

\* an accepted document has only agents whose StartingPosition has X, Y and Z
StartingPositionComplete ==
    (SettingsDone /\ result = "True") =>
        \A a \in 1..Len(AgentItems) :
            {"X", "Y", "Z"} \subseteq KeySet(DictGet(AgentItems[a][2], "StartingPosition"))

(***************************************************************************)
(* Goal points                                                             *)
(***************************************************************************)
\* Scenario.Options of the document holds GoalPoint
HasGoalPoint ==
    /\ call = "validate_settings_file"
    /\ Has(settings_file, "Scenario")
    /\ Has(DictGet(settings_file, "Scenario"), "Options")
    /\ Has(DictGet(DictGet(settings_file, "Scenario"), "Options"), "GoalPoint")

GoalPoint == DictGet(DictGet(DictGet(settings_file, "Scenario"), "Options"), "GoalPoint")

\* a mapping with the keys X, Y and Z and no other, each a float in [-999.0, 999.0]
GoalWellFormed(goal) ==
    /\ goal.t = "dict"
    /\ KeySet(goal) = {"X", "Y", "Z"}
    /\ \A i \in 1..Len(goal.v) :
          /\ goal.v[i][2].t = "float"
          /\ goal.v[i][2].v >= -999000
          /\ goal.v[i][2].v <= 999000

\* as many goals as agents, every goal well formed
GoalsWellFormed ==
    /\ Has(settings_file, "Agents")
    /\ Len(GoalPoint.v) = Len(AgentItems)
    /\ \A g \in 1..Len(GoalPoint.v) : GoalWellFormed(GoalPoint.v[g][2])

\* C16: goal points.  When Scenario.Options holds GoalPoint and the goals are
\* not as many as the agents, or a goal is not a mapping of exactly X, Y, Z to
\* floats in [-999.0, 999.0], the document is never accepted, and the walk
\* stops at Scenario as soon as it gets there.
C16_GoalPoints ==
    (HasGoalPoint /\ ~GoalsWellFormed) =>
        /\ result # "True"
        /\ Examined(<<"Scenario">>) =>
              /\ pc = "done"
              /\ result = "False"
              /\ diag.at = <<"Scenario">>

\* two agents and two goals, the second one with a coordinate of 999.01: refused
C16_Witness ==
    /\ SettingsDone
    /\ HasGoalPoint
    /\ Len(GoalPoint.v) = 2
    /\ Len(AgentItems) = 2
    /\ GoalWellFormed(GoalPoint.v[1][2])
    /\ result = "False"
    /\ diag = [kind |-> "GoalCoordRange", at |-> <<"Scenario">>]

\* the agent runs PX4 and its Sensors section lacks IMU, Magnetometers or Barometers
PX4LacksSensors(agent_options) ==
    /\ Has(agent_options, "AutoPilot")
    /\ DictGet(agent_options, "AutoPilot") = PyStr("PX4")
    /\ Has(agent_options, "Sensors")
    /\ ~({"IMU", "Magnetometers", "Barometers"} \subseteq
            KeySet(DictGet(agent_options, "Sensors")))

\* C17: PX4 co-requisites.  A document with a PX4 agent whose Sensors lack
\* IMU, Magnetometers or Barometers is never accepted, and the walk stops at
\* that agent's Sensors as soon as it gets there; the diagnostic is given to
\* no other agent, so an agent on the SWARM autopilot needs none of the three.
C17_PX4Sensors ==
    call = "validate_settings_file" =>
        /\ \A a \in 1..Len(AgentItems) :
              PX4LacksSensors(AgentItems[a][2]) =>
                  /\ result # "True"
                  /\ Examined(<<AgentItems[a][1], "Sensors">>) =>
                        /\ pc = "done"
                        /\ result = "False"
                        /\ diag = [kind |-> "PX4Sensors",
                                   at |-> <<AgentItems[a][1], "Sensors">>]
        /\ diag.kind = "PX4Sensors" => PX4LacksSensors(AgentNamed(diag.at[1]))

\* a PX4 agent with IMU and Magnetometers and no Barometers is refused
C17_Witness ==
    /\ SettingsDone
    /\ result = "False"
    /\ diag.kind = "PX4Sensors"
    /\ KeySet(DictGet(AgentNamed(diag.at[1]), "Sensors")) = {"IMU", "Magnetometers"}

(***************************************************************************)
(* The capability descriptor                                               *)
(***************************************************************************)
\* C18: a missing capability descriptor is fatal.  When the descriptor file
\* cannot be opened, neither validator ever returns True, validate() returns
\* False, and validate_settings_file has examined no item of the document.
C18_MissingDescriptorFatal ==
    ~descriptor_found =>
        /\ vp_result.ret \in {"none", "False"}
        /\ result # "True"
        /\ examined = << >>

\* with the descriptor file missing, validate() returns False and nothing else
VPMissingDescriptorFatal ==
    (~descriptor_found /\ VPDone) => vp_result = VPFail("DescriptorNotFound")

\* with the descriptor file missing, validate_settings_file never returns True
SettingsMissingDescriptorRefused == ~descriptor_found => result # "True"

\* with the descriptor file missing, a document that has agents is never accepted
AgentsMissingDescriptorRefused ==
    (~descriptor_found /\ Len(AgentItems) > 0) => result # "True"

\* the loop of validate_software_modules from the i-th module on: the first error, or "ok"
RECURSIVE ModulesLoop(_, _, _, _, _)
ModulesLoop(modules, i, sensors, desc, loc) ==
    IF i > Len(modules.v) THEN "ok"
    ELSE LET r == ValidateModule(modules.v[i][1], modules.v[i][2], sensors, desc, loc)
         IN IF r.err # "ok" THEN r.err
            ELSE ModulesLoop(modules, i + 1, sensors, r.desc, loc)

\* validate_software_modules on an instance whose _local is loc
validate_software_modules(modules, sensors, loc) ==
    ModulesLoop(modules, 1, sensors, SupportedModulesFile, loc)

\* the states of SWARM._local: never assigned, or assigned by _determine_local_simulation
LocalStates == {"unset", "True", "False"}

\* C19: determinism and purity.  The result of validate_settings_file depends
\* on the document and the descriptor alone: a document accepted on one
\* instance has software modules that pass validate_software_modules on an
\* instance in any other state of the local/remote flag.
C19_FlagIndependent ==
    (SettingsDone /\ descriptor_found /\ result = "True") =>
        \A loc \in LocalStates :
            \A a \in 1..Len(AgentItems) :
                validate_software_modules(DictGet(AgentItems[a][2], "SoftwareModules"),
                                          DictGet(AgentItems[a][2], "Sensors"), loc) = "ok"

\* the walk agrees with validate_software_modules on the instance's own flag
WalkAgreesWithModules ==
    (SettingsDone /\ descriptor_found /\ result = "True") =>
        \A a \in 1..Len(AgentItems) :
            validate_software_modules(DictGet(AgentItems[a][2], "SoftwareModules"),
                                      DictGet(AgentItems[a][2], "Sensors"), local) = "ok"

\* C20: the descriptor is read-only.  From the moment validate_software_modules
\* has loaded it, the descriptor it holds is the descriptor of the file.
C20_DescriptorReadOnly == supported_modules \in {NotLoaded, SupportedModulesFile}

\* the descriptor is as loaded for as long as the instance is local
LocalDescriptorReadOnly ==
    local = "True" => supported_modules \in {NotLoaded, SupportedModulesFile}

\* the Settings of the LiDARs of the document
LidarSettings ==
    {DictGet(l, "Settings") :
        l \in {x \in SensorEntries("LiDAR") : Has(x, "Settings")
                                              /\ DictGet(x, "Settings").t = "dict"}}

\* the setting is a number inside [lo, hi]
SettingWithin(settings, name, lo, hi) ==
    /\ Has(settings, name)
    /\ IsNumber(DictGet(settings, name))
    /\ Num(DictGet(settings, name)) >= lo
    /\ Num(DictGet(settings, name)) <= hi

\* C27: LiDAR NumberOfChannels and RotationsPerSecond.  The walk stops at a
\* LiDAR's NumberOfChannels only when the value is outside 6 to 32, and at its
\* RotationsPerSecond only when the value is outside 5 to 20.
C27_LidarRanges ==
    /\ diag.kind = "LidarChannels" =>
          \A st \in LidarSettings : ~SettingWithin(st, "NumberOfChannels", 6000, 32000)
    /\ diag.kind = "LidarRotations" =>
          \A st \in LidarSettings : ~SettingWithin(st, "RotationsPerSecond", 5000, 20000)

\* no accepted document has a LiDAR with NumberOfChannels or RotationsPerSecond
LidarChannelsNeverAccepted ==
    (SettingsDone /\ result = "True") =>
        \A st \in LidarSettings :
            ~Has(st, "NumberOfChannels") /\ ~Has(st, "RotationsPerSecond")

\* the sensor types made of Enabled, Method and PublishingRate
RateSensorTypes == {"Barometers", "Odometers", "Magnetometers", "GPS", "AirSpeed", "IMU"}

\* C28: Enabled is a boolean.  An accepted document has no Barometers,
\* Odometers, Magnetometers, GPS, AirSpeed or IMU entry whose Enabled is not
\* a boolean.
C28_EnabledBoolean ==
    (SettingsDone /\ result = "True") =>
        \A sensor_type \in RateSensorTypes :
            \A s \in SensorEntries(sensor_type) :
                Has(s, "Enabled") => DictGet(s, "Enabled").t = "bool"

\* an Odometers entry with Enabled, the Method Colosseum and a PublishingRate in [1.0, 50.0]
WellFormedOdometer(s) ==
    /\ s.t = "dict"
    /\ KeySet(s) = {"Enabled", "Method", "PublishingRate"}
    /\ DictGet(s, "Enabled").t = "bool"
    /\ DictGet(s, "Method") = PyStr("Colosseum")
    /\ DictGet(s, "PublishingRate").t = "float"
    /\ DictGet(s, "PublishingRate").v >= 1000
    /\ DictGet(s, "PublishingRate").v <= 50000

\* C29: the order of the sensor types.  The walk never stops at a Sensors
\* section all of whose Odometers entries are well formed because of the
\* Odometers: the only sensor type of the section, or one that comes before
\* the Barometers, passes as it does after them.
C29_OdometersAlone ==
    (call = "validate_settings_file" /\ Len(diag.at) = 2 /\ diag.at[2] = "Sensors"
       /\ KeySet(DictGet(AgentNamed(diag.at[1]), "Sensors")) \subseteq
             {"Odometers", "Barometers"}
       /\ \A sensor_type \in {"Odometers", "Barometers"} :
             Has(DictGet(AgentNamed(diag.at[1]), "Sensors"), sensor_type) =>
                 \A i \in 1..Len(DictGet(DictGet(AgentNamed(diag.at[1]), "Sensors"),
                                         sensor_type).v) :
                     WellFormedOdometer(DictGet(DictGet(AgentNamed(diag.at[1]), "Sensors"),
                                                sensor_type).v[i][2]))
    => diag.kind = "PX4Sensors"

\* a document whose Odometers come after its Barometers has been accepted
OdometersAfterBarometers ==
    /\ SettingsDone /\ result = "True"
    /\ \E a \in 1..Len(AgentItems) :
          DictKeys(DictGet(AgentItems[a][2], "Sensors")) = <<"Barometers", "Odometers">>

\* C30: Scenario structure.  The walk stops at Scenario with the diagnostic
\* on its keys exactly when the set of the keys of Scenario is not
\* {Name, Options}, whatever the order of the two keys.
C30_ScenarioKeySet ==
    (call = "validate_settings_file" /\ Examined(<<"Scenario">>)
       /\ DictGet(settings_file, "Scenario").t = "dict") =>
        (diag = [kind |-> "ScenarioKeys", at |-> <<"Scenario">>]
            <=> KeySet(DictGet(settings_file, "Scenario")) # {"Name", "Options"})

(***************************************************************************)
(* The trajectory validators                                               *)
(***************************************************************************)
valid_point_fields == {"X", "Y", "Z", "Heading", "Speed"}

\* the checks of one field of a point: the failure it raises, or "ok", and
\* whether a warning is printed before; here a fatal Heading
ValidateField_HeadingFatal(field_name, value) ==
    IF value.t # "float" THEN [kind |-> "FieldType", warned |-> FALSE]
    ELSE IF field_name \notin valid_point_fields
    THEN [kind |-> "FieldName", warned |-> FALSE]
    ELSE IF field_name \in {"X", "Y"}
    THEN [kind |-> IF value.v > 1000000 \/ value.v < -1000000 THEN "Range" ELSE "ok",
          warned |-> FALSE]
    ELSE IF field_name = "Z"
    THEN [kind |-> IF value.v > 1000000 \/ value.v < -1000000 THEN "Range" ELSE "ok",
          warned |-> value.v > 500]
    ELSE IF field_name = "Heading"
    THEN [kind |-> IF value.v < -360000 \/ value.v > 360000 THEN "Heading" ELSE "ok",
          warned |-> value.v < -360000 \/ value.v > 360000]
    ELSE [kind |-> IF value.v < 0 \/ value.v > 20000 THEN "Speed" ELSE "ok",
          warned |-> FALSE]

\* the checks of one field of a point: the failure it raises, or "ok", and
\* whether a warning is printed before
ValidateField(field_name, value) ==
    IF value.t # "float" THEN [kind |-> "FieldType", warned |-> FALSE]
    ELSE IF field_name \notin valid_point_fields
    THEN [kind |-> "FieldName", warned |-> FALSE]
    ELSE IF field_name \in {"X", "Y"}
    THEN [kind |-> IF value.v > 1000000 \/ value.v < -1000000 THEN "Range" ELSE "ok",
          warned |-> FALSE]
    ELSE IF field_name = "Z"
    THEN [kind |-> IF value.v > 1000000 \/ value.v < -1000000 THEN "Range" ELSE "ok",
          warned |-> value.v > 500]
    ELSE IF field_name = "Heading"
    THEN [kind |-> "ok",
          warned |-> value.v < -360000 \/ value.v > 360000]
    ELSE [kind |-> IF value.v < 0 \/ value.v > 20000 THEN "Speed" ELSE "ok",
          warned |-> FALSE]

\* the loop over the fields of point i, from the k-th on: the first failure
\* and the warnings printed up to it
RECURSIVE ValidateFields(_, _, _)
ValidateFields(items, k, i) ==
    IF k > Len(items) THEN [kind |-> "ok", warnings |-> << >>]
    ELSE LET f == ValidateField(items[k][1], items[k][2])
             w == IF f.warned THEN << <<i, items[k][1]>> >> ELSE << >>
         IN  IF f.kind # "ok" THEN [kind |-> f.kind, warnings |-> w]
             ELSE LET rest == ValidateFields(items, k + 1, i)
                  IN  [kind |-> rest.kind, warnings |-> w \o rest.warnings]

\* the loop over the points, from the i-th on
RECURSIVE ValidatePoints(_, _)
ValidatePoints(points, i) ==
    IF i > Len(points) THEN [kind |-> "ok", warnings |-> << >>]
    ELSE IF points[i].t # "dict" THEN [kind |-> "PointType", warnings |-> << >>]
    ELSE LET p == ValidateFields(points[i].v, 1, i)
         IN  IF p.kind # "ok" THEN p
             ELSE LET rest == ValidatePoints(points, i + 1)
                  IN  [kind |-> rest.kind, warnings |-> p.warnings \o rest.warnings]

\* what enumerate() yields for the value: the elements of a list, the keys of a dict
Enumerated(x) ==
    IF x.t = "list" THEN x.v ELSE [k \in 1..Len(x.v) |-> PyStr(x.v[k][1])]

\* SWARM.validate_trajectory_file: every raise is caught and gives False
validate_trajectory_file(traj) ==
    IF traj.t \notin {"list", "dict"}
    THEN [ret |-> "False", kind |-> "TypeError", warnings |-> << >>]
    ELSE IF Len(traj.v) = 0
    THEN [ret |-> "False", kind |-> "Empty", warnings |-> << >>]
    ELSE LET r == ValidatePoints(Enumerated(traj), 1)
         IN  [ret |-> IF r.kind = "ok" THEN "True" ELSE "False",
              kind |-> r.kind, warnings |-> r.warnings]

\* the loop over the levels, from the l-th on; it breaks at the first
\* level that is not valid; valid is the value of trajectory_valid so far
RECURSIVE ValidateLevels(_, _, _)
ValidateLevels(levels, l, valid) ==
    IF l > Len(levels) THEN valid
    ELSE LET r == validate_trajectory_file(levels[l][2])
             sofar == [ret |-> r.ret, kind |-> r.kind,
                       warnings |-> valid.warnings \o r.warnings]
         IN  IF r.ret # "True" THEN sofar ELSE ValidateLevels(levels, l + 1, sofar)

\* SWARM.validate_multi_level_trajectory_file: nothing is caught here
validate_multi_level_trajectory_file(doc) ==
    IF ~Has(doc, "Trajectory")
    THEN [ret |-> "raise", kind |-> "KeyError", warnings |-> << >>]
    ELSE LET t == DictGet(doc, "Trajectory")
         IN  IF t.t = "list" THEN validate_trajectory_file(t)
             ELSE IF t.t # "dict"
             THEN [ret |-> "raise", kind |-> "AttributeError", warnings |-> << >>]
             ELSE ValidateLevels(t.v, 1, [ret |-> "True", kind |-> "ok", warnings |-> << >>])

(***************************************************************************)
(* Trajectories                                                            *)
(***************************************************************************)
\* the values tried for a field: the ends of the ranges and their neighbours
FieldValues(field_name) ==
    IF field_name \in {"X", "Y"}
    THEN {PyFloat(0), PyFloat(1000000), PyFloat(1000001), PyFloat(-1000001)}
    ELSE IF field_name = "Z"
    THEN {PyFloat(-10000), PyFloat(500), PyFloat(501), PyFloat(1000000),
          PyFloat(1000001), PyFloat(-1000001)}
    ELSE IF field_name = "Heading"
    THEN {PyFloat(0), PyFloat(360000), PyFloat(360001), PyFloat(-360001)}
    ELSE IF field_name = "Speed"
    THEN {PyFloat(0), PyFloat(20000), PyFloat(20001), PyFloat(-1)}
    ELSE {PyFloat(0)}

GoodPoint ==
    PyDict(<< <<"X", PyFloat(1000)>>, <<"Y", PyFloat(2000)>>, <<"Z", PyFloat(-10000)>>,
              <<"Heading", PyFloat(90000)>>, <<"Speed", PyFloat(5000)>> >>)

\* a point above the ground plane with a heading beyond a full turn
WarnedPoint ==
    PyDict(<< <<"X", PyFloat(1000)>>, <<"Y", PyFloat(2000)>>, <<"Z", PyFloat(600)>>,
              <<"Heading", PyFloat(400000)>>, <<"Speed", PyFloat(5000)>> >>)

PointPool ==
    {GoodPoint, WarnedPoint, PyDict(<< >>), PyFloat(1000),
     PyDict(<< <<"X", PyInt(1000)>> >>), PyDict(<< <<"Heading", PyStr("north")>> >>),
     PyDict(<< <<"Z", PyFloat(600)>>, <<"Speed", PyFloat(20001)>> >>),
     PyDict(<< <<"Heading", PyFloat(400000)>>, <<"W", PyFloat(0)>> >>)}
    \cup UNION {{PyDict(<< <<field_name, value>> >>) : value \in FieldValues(field_name)} :
                  field_name \in valid_point_fields \cup {"W"}}

MaxPoints == 2

TrajectoryPool ==
    {PyList(points) : points \in UNION {[1..n -> PointPool] : n \in 0..MaxPoints}}

\* the levels tried in a multi-level file
LevelPool ==
    {PyList(<< >>), PyList(<<GoodPoint>>), PyList(<<WarnedPoint>>),
     PyList(<<GoodPoint, WarnedPoint>>),
     PyList(<<PyDict(<< <<"Speed", PyFloat(20001)>> >>)>>),
     PyList(<<WarnedPoint, PyDict(<< <<"X", PyFloat(1000001)>> >>)>>),
     PyDict(<< <<"X", PyFloat(0)>> >>)}

MultiLevelPool ==
    {PyDict(<< >>), PyDict(<< <<"Trajectory", PyStr("L1")>> >>),
     PyDict(<< <<"Trajectory", PyDict(<< >>)>> >>)}
    \cup {PyDict(<< <<"Trajectory", t>> >>) : t \in LevelPool}
    \cup {PyDict(<< <<"Trajectory", PyDict(<< <<"L1", t1>> >>)>> >>) : t1 \in LevelPool}
    \cup {PyDict(<< <<"Trajectory", PyDict(<< <<"L1", t1>>, <<"L2", t2>> >>)>> >>) :
            t1 \in LevelPool, t2 \in LevelPool}

(***************************************************************************)
(* The state machine of the trajectory validators                          *)
(***************************************************************************)
\* the two validators of the configuration are not run
ValidatorsIdle ==
    /\ vp_profile = << >>
    /\ vp_result = [ret |-> "none", msg |-> "none"]
    /\ settings_file = PyDict(<< >>)
    /\ local = "unset"
    /\ descriptor_found = TRUE
    /\ WalkStart

validatorVars == <<vp_profile, vp_result, settings_file, local, descriptor_found, walkVars>>

InitTrajectory ==
    /\ \/ call = "validate_trajectory_file" /\ trajectory \in TrajectoryPool
       \/ call = "validate_multi_level_trajectory_file" /\ trajectory \in MultiLevelPool
    /\ trajectory_valid = [ret |-> "none", kind |-> "none", warnings |-> << >>]
    /\ ValidatorsIdle
    /\ ClientIdle
    /\ WaitIdle
    /\ MultipartIdle
    /\ RunIdle

ValidateTrajectoryFile ==
    /\ call = "validate_trajectory_file"
    /\ trajectory_valid.ret = "none"
    /\ trajectory_valid' = validate_trajectory_file(trajectory)
    /\ UNCHANGED <<call, trajectory, validatorVars, clientVars, waitVars, multipartVars, runVars>>

ValidateMultiLevelTrajectoryFile ==
    /\ call = "validate_multi_level_trajectory_file"
    /\ trajectory_valid.ret = "none"
    /\ trajectory_valid' = validate_multi_level_trajectory_file(trajectory)
    /\ UNCHANGED <<call, trajectory, validatorVars, clientVars, waitVars, multipartVars, runVars>>

NextTrajectory ==
    \/ ValidateTrajectoryFile
    \/ ValidateMultiLevelTrajectoryFile

SpecTrajectory == InitTrajectory /\ [][NextTrajectory]_vars

(***************************************************************************)
(* Properties of the trajectory validators                                 *)
(***************************************************************************)
TrajectoryDone == call = "validate_trajectory_file" /\ trajectory_valid.ret # "none"

\* the points of the list, with their positions
PointsOf(traj) == {<<i, traj.v[i]>> : i \in 1..Len(traj.v)}

\* the point has the field, a float, with a value v for which cond holds
FieldIs(point, field_name, cond(_)) ==
    /\ point.t = "dict"
    /\ Has(point, field_name)
    /\ DictGet(point, field_name).t = "float"
    /\ cond(DictGet(point, field_name).v)

\* a point with nothing wrong but its Heading and the height of its Z
OtherwiseValid(point) ==
    /\ point.t = "dict"
    /\ KeySet(point) \subseteq valid_point_fields
    /\ \A k \in KeySet(point) : DictGet(point, k).t = "float"
    /\ \A k \in KeySet(point) \cap {"X", "Y", "Z"} :
          DictGet(point, k).v >= -1000000 /\ DictGet(point, k).v <= 1000000
    /\ Has(point, "Speed") =>
          DictGet(point, "Speed").v >= 0 /\ DictGet(point, "Speed").v <= 20000

HeadingOutside(v) == v < -360000 \/ v > 360000

ZAboveGround(v) == v > 500

\* C21: the two soft warnings.  validate_trajectory_file returns True exactly
\* for the non-empty lists whose points have nothing wrong but a Heading
\* outside [-360.0, 360.0] or a Z above 0.5 (and at most 1000.0); on such a
\* list a warning is printed for exactly these fields.
C21_SoftWarnings ==
    TrajectoryDone /\ trajectory.t = "list" =>
        /\ trajectory_valid.ret = "True" <=>
              /\ Len(trajectory.v) > 0
              /\ \A p \in PointsOf(trajectory) : OtherwiseValid(p[2])
        /\ trajectory_valid.ret = "True" =>
              SeqToSet(trajectory_valid.warnings) =
                  {<<p[1], "Heading">> : p \in {q \in PointsOf(trajectory) :
                                            FieldIs(q[2], "Heading", HeadingOutside)}}
                  \cup {<<p[1], "Z">> : p \in {q \in PointsOf(trajectory) :
                                            FieldIs(q[2], "Z", ZAboveGround)}}

\* a list with a Heading beyond a full turn and a Z above the ground plane was accepted
C21_Witness ==
    /\ TrajectoryDone
    /\ trajectory_valid.ret = "True"
    /\ \E p \in PointsOf(trajectory) : FieldIs(p[2], "Heading", HeadingOutside)
    /\ \E p \in PointsOf(trajectory) : FieldIs(p[2], "Z", ZAboveGround)
    /\ Len(trajectory_valid.warnings) >= 2

(***************************************************************************)
(* The requests of the client                                              *)
(***************************************************************************)
\* what the socket does when a message is sent on it: it takes the message,
\* or the connection is broken and send raises a ConnectionError
Links == {"up", "broken"}

\* what the wait for the response gives: a body without errors, a body that
\* lists errors, nothing, or an exception
Responses == {"body", "errors", "none", "raise"}

\* the requests tried in one run of the client
MaxRequests == 3

\* the process has not called exit
Running == request.outcome # "exit"

\* SWARMClient.send_message: the value returned
send_message(link) == connected /\ link = "up"

PyBoolName(b) == IF b THEN "True" ELSE "False"

\* the end of a request: the record of it, message_id and connected
EndRequest(op, sent, advance, conn, outcome) ==
    /\ request' = [op |-> op, sent |-> PyBoolName(sent), id |-> message_id,
                   outcome |-> outcome]
    /\ message_id' = IF advance THEN message_id + 1 ELSE message_id
    /\ connected' = conn

\* SWARMClient.connect: the socket connects, or the process exits
connect ==
    /\ call = "client"
    /\ Running
    /\ \/ /\ connected' = TRUE
          /\ UNCHANGED <<message_id, request>>
       \/ /\ request' = [op |-> "connect", sent |-> "none", id |-> message_id,
                         outcome |-> "exit"]
          /\ UNCHANGED <<message_id, connected>>
    /\ UNCHANGED <<call, validatorVars, trajVars, waitVars, multipartVars, runVars>>

\* a request that waits for a packet and asserts that one came:
\* send_simulation_execution_package and send_supported_envs_message
PacketRequest(op) ==
    /\ call = "client"
    /\ Running
    /\ message_id < MaxRequests
    /\ \E link \in Links, response \in Responses :
          LET sent == send_message(link)
          IN  IF response = "raise" THEN EndRequest(op, sent, FALSE, connected, "False")
              ELSE IF response = "none" THEN EndRequest(op, sent, FALSE, connected, "exit")
              ELSE EndRequest(op, sent, sent, FALSE, "completed")
    /\ UNCHANGED <<call, validatorVars, trajVars, waitVars, multipartVars, runVars>>

send_simulation_execution_package == PacketRequest("send_simulation_execution_package")

send_supported_envs_message == PacketRequest("send_supported_envs_message")

\* a request that waits for bytes: request_environment_schematics keeps the
\* connection, send_data_extraction_message and send_env_information_message
\* drop it
BytesRequest(op, keeps_connection) ==
    /\ call = "client"
    /\ Running
    /\ message_id < MaxRequests
    /\ \E link \in Links, response \in Responses :
          LET sent == send_message(link)
          IN  IF response = "raise" THEN EndRequest(op, sent, FALSE, connected, "False")
              ELSE EndRequest(op, sent, sent, keeps_connection /\ connected, "True")
    /\ UNCHANGED <<call, validatorVars, trajVars, waitVars, multipartVars, runVars>>

request_environment_schematics == BytesRequest("request_environment_schematics", TRUE)

send_data_extraction_message == BytesRequest("send_data_extraction_message", FALSE)

send_env_information_message == BytesRequest("send_env_information_message", FALSE)

\* SWARMClient.send_user_code_for_validation: the response is read before
\* message_id is advanced
send_user_code_for_validation ==
    /\ call = "client"
    /\ Running
    /\ message_id < MaxRequests
    /\ \E link \in Links, response \in Responses :
          LET sent == send_message(link)
          IN  IF response \in {"raise", "none"}
              THEN EndRequest("send_user_code_for_validation", sent, FALSE, connected, "False")
              ELSE EndRequest("send_user_code_for_validation", sent, sent, FALSE, "True")
    /\ UNCHANGED <<call, validatorVars, trajVars, waitVars, multipartVars, runVars>>

\* SWARMClient._retrieve_loaded_models_from_server: nothing is caught; the
\* wait is made only when the message was sent
retrieve_loaded_models_from_server ==
    /\ call = "client"
    /\ Running
    /\ message_id < MaxRequests
    /\ \E link \in Links, response \in Responses :
          LET sent == send_message(link)
              op == "_retrieve_loaded_models_from_server"
          IN  IF ~sent THEN EndRequest(op, sent, TRUE, connected, "None")
              ELSE IF response \in {"raise", "none"}
              THEN EndRequest(op, sent, FALSE, connected, "raise")
              ELSE IF response = "body" THEN EndRequest(op, sent, TRUE, connected, "Models")
              ELSE EndRequest(op, sent, TRUE, connected, "None")
    /\ UNCHANGED <<call, validatorVars, trajVars, waitVars, multipartVars, runVars>>

\* SWARMClient.load_user_code, the upload of a model: connect,
\* send_multipart_file (which returns True whatever its send_message
\* returned), the wait, and message_id advanced before the response is read
load_user_code ==
    /\ call = "client"
    /\ Running
    /\ message_id < MaxRequests
    /\ \E link \in Links, response \in Responses :
          LET sent == link = "up"
          IN  IF response = "raise"
              THEN EndRequest("load_user_code", sent, FALSE, TRUE, "raise")
              ELSE IF response = "none"
              THEN EndRequest("load_user_code", sent, TRUE, FALSE, "raise")
              ELSE EndRequest("load_user_code", sent, TRUE, FALSE, "user_code")
    /\ UNCHANGED <<call, validatorVars, trajVars, waitVars, multipartVars, runVars>>

InitClient ==
    /\ call = "client"
    /\ ClientIdle
    /\ ValidatorsIdle
    /\ TrajIdle
    /\ WaitIdle
    /\ MultipartIdle
    /\ RunIdle

NextClient ==
    \/ connect
    \/ send_simulation_execution_package
    \/ send_supported_envs_message
    \/ request_environment_schematics
    \/ send_data_extraction_message
    \/ send_env_information_message
    \/ send_user_code_for_validation
    \/ retrieve_loaded_models_from_server
    \/ load_user_code

SpecClient == InitClient /\ [][NextClient]_vars

(***************************************************************************)
(* Properties of the requests                                              *)
(***************************************************************************)
\* the step advances message_id by one after a message that was sent, or
\* leaves it unchanged
Disciplined ==
    \/ message_id' = message_id
    \/ message_id' = message_id + 1 /\ request'.sent = "True"

\* C24: message id discipline.  In every step of the client message_id
\* stays or goes up by one, and it goes up only at the end of a request
\* whose send_message reported that the message was sent.
C24_MessageIdDiscipline == [][Disciplined]_vars

\* the requests that keep the discipline
DisciplinedRequests ==
    [][request'.op \notin {"_retrieve_loaded_models_from_server", "load_user_code"}
          => Disciplined]_vars

\* message_id never goes down and never skips
MessageIdMonotonic == [][message_id' \in {message_id, message_id + 1}]_vars

(***************************************************************************)
(* The wait for the response                                               *)
(***************************************************************************)
\* the ids of the messages that arrive
MaxID == 2

\* the lengths announced by a header and delivered by one recv
MaxBytes == 2

\* the bytes received in one wait
MaxReceived == 4

\* the bodies of the messages that arrive
Bodies ==
    {PyDict(<< <<"Bytes", PyInt(1000 * n)>> >>) : n \in 1..MaxBytes}
    \cup {PyDict(<< <<"Status", PyStr("Running")>> >>),
          PyDict(<< <<"Error", PyStr("Critical")>> >>),
          PyDict(<< <<"Error", PyStr("Minor")>>, <<"Status", PyStr("Running")>> >>),
          PyDict(<< <<"Models", PyList(<< >>)>>, <<"Errors", PyList(<< >>)>> >>),
          PyNone}

Messages == [ID : 0..MaxID, Body : Bodies]

\* message["Body"].keys() can be asked for
HasKeys(m) == m.Body.t = "dict"

\* the pass decodes the message m: a header, the awaited response, or a
\* message that is skipped; a Body without keys raises, and the exception
\* is caught inside the loop
Decoded(m) ==
    /\ last_message' = m
    /\ IF ~received_header /\ ~HasKeys(m)
       THEN /\ wait_step' = "exception"
            /\ UNCHANGED <<wait_pc, received_header, total_bytes, received_message>>
       ELSE IF ~received_header /\ Has(m.Body, "Bytes")
       THEN /\ wait_step' = "header"
            /\ total_bytes' = DictGet(m.Body, "Bytes").v \div 1000
            /\ received_header' = TRUE
            /\ UNCHANGED <<wait_pc, received_message>>
       ELSE IF m.ID = message_id
       THEN /\ wait_step' = "response"
            /\ received_message' = m.Body
            /\ wait_pc' = "returned"
            /\ UNCHANGED <<received_header, total_bytes>>
       ELSE IF ~HasKeys(m)
       THEN /\ wait_step' = "exception"
            /\ received_header' = FALSE
            /\ total_bytes' = 0
            /\ UNCHANGED <<wait_pc, received_message>>
       ELSE /\ wait_step' = "skipped"
            /\ received_header' = FALSE
            /\ total_bytes' = 0
            /\ UNCHANGED <<wait_pc, received_message>>

\* recv raises BlockingIOError: the loop sleeps and goes on
RecvBlocked ==
    /\ call = "wait_for_response_packet"
    /\ wait_pc = "loop"
    /\ wait_step' = "blocked"
    /\ UNCHANGED <<wait_pc, received_header, received_bytes, total_bytes, last_message,
                   received_message>>
    /\ UNCHANGED <<call, validatorVars, trajVars, clientVars, multipartVars, runVars>>

\* recv raises another OSError: the loop is left
RecvOSError ==
    /\ call = "wait_for_response_packet"
    /\ wait_pc = "loop"
    /\ wait_step' = "oserror"
    /\ wait_pc' = "returned"
    /\ UNCHANGED <<received_header, received_bytes, total_bytes, last_message, received_message>>
    /\ UNCHANGED <<call, validatorVars, trajVars, clientVars, multipartVars, runVars>>

\* after a header, recv gives n bytes and the announced length is not reached
RecvPartial ==
    /\ call = "wait_for_response_packet"
    /\ wait_pc = "loop"
    /\ received_header
    /\ \E n \in 1..MaxBytes :
          /\ received_bytes + n < total_bytes
          /\ received_bytes' = received_bytes + n
    /\ wait_step' = "partial"
    /\ UNCHANGED <<wait_pc, received_header, total_bytes, last_message, received_message>>
    /\ UNCHANGED <<call, validatorVars, trajVars, clientVars, multipartVars, runVars>>

\* recv gives bytes that json.loads refuses: JSONDecodeError, pass
RecvUndecodable ==
    /\ call = "wait_for_response_packet"
    /\ wait_pc = "loop"
    /\ \E n \in 1..MaxBytes :
          /\ received_header => received_bytes + n >= total_bytes
          /\ received_bytes + n <= MaxReceived
          /\ received_bytes' = IF received_header THEN received_bytes + n ELSE received_bytes
    /\ wait_step' = "undecodable"
    /\ UNCHANGED <<wait_pc, received_header, total_bytes, last_message, received_message>>
    /\ UNCHANGED <<call, validatorVars, trajVars, clientVars, multipartVars, runVars>>

\* recv gives the bytes of a message, the last ones after a header
RecvMessage ==
    /\ call = "wait_for_response_packet"
    /\ wait_pc = "loop"
    /\ \E n \in 1..MaxBytes, m \in Messages :
          /\ received_header => received_bytes + n >= total_bytes
          /\ received_bytes + n <= MaxReceived
          /\ received_bytes' =
                IF received_header /\ (m.ID = message_id \/ ~HasKeys(m))
                THEN received_bytes + n ELSE 0
          /\ Decoded(m)
    /\ UNCHANGED <<call, validatorVars, trajVars, clientVars, multipartVars, runVars>>

InitWait ==
    /\ call = "wait_for_response_packet"
    /\ message_id \in 0..1
    /\ connected = TRUE
    /\ request = NoRequest
    /\ wait_pc = "loop"
    /\ WaitStart
    /\ ValidatorsIdle
    /\ TrajIdle
    /\ MultipartIdle
    /\ RunIdle

NextWait ==
    \/ RecvBlocked
    \/ RecvOSError
    \/ RecvPartial
    \/ RecvUndecodable
    \/ RecvMessage

SpecWait == InitWait /\ [][NextWait]_vars

(***************************************************************************)
(* Properties of the wait                                                  *)
(***************************************************************************)
\* the message is not the awaited one and its Body.Error is "Critical"
CriticalElsewhere(m) ==
    /\ m.ID # message_id
    /\ HasKeys(m)
    /\ Has(m.Body, "Error")
    /\ DictGet(m.Body, "Error") = PyStr("Critical")

\* C25: the wait.  A body is returned only from a message whose ID is the
\* awaited one; a pass that skips a message with another ID resets the header
\* state; and a pass that skips a message with another ID whose Body.Error is
\* "Critical" ends the wait, which returns without a response.
C25_CriticalEndsWait ==
    [][/\ (wait_pc' = "returned" /\ received_message' # PyNone) =>
              (last_message'.ID = message_id /\ received_message' = last_message'.Body)
       /\ wait_step' = "skipped" =>
              (~received_header' /\ received_bytes' = 0 /\ total_bytes' = 0)
       /\ (wait_step' = "skipped" /\ CriticalElsewhere(last_message')) =>
              (wait_pc' = "returned" /\ received_message' = PyNone)]_vars

\* a body is returned only from a message with the awaited ID
BodyFromAwaited ==
    (call = "wait_for_response_packet" /\ wait_pc = "returned"
       /\ received_message # PyNone) =>
        (last_message.ID = message_id /\ received_message = last_message.Body)

\* a message with another ID is skipped with the header state reset
SkipResetsHeader ==
    (call = "wait_for_response_packet" /\ wait_step = "skipped") =>
        (~received_header /\ received_bytes = 0 /\ total_bytes = 0)

\* after a Critical error on another ID the loop goes on
CriticalKeepsWaiting ==
    (call = "wait_for_response_packet" /\ wait_step = "skipped"
       /\ CriticalElsewhere(last_message)) => wait_pc = "loop"

(***************************************************************************)
(* The chunks of a multipart file                                          *)
(***************************************************************************)
\* the chunks of the file
NumChunks == 2

\* the bound of the retry loop
RetryLimit == 50

\* the failed retries and the sends of one chunk that are followed
MaxRetries == 52

MaxSends == 3

\* for i, chunk in enumerate(chunks): the next chunk, or return True
NextChunk ==
    /\ IF chunk_idx < NumChunks
       THEN chunk_idx' = chunk_idx + 1 /\ mp_pc' = "sendall"
       ELSE chunk_idx' = chunk_idx /\ mp_pc' = "returned"

\* socket.sendall(chunk) returns
SendAll ==
    /\ call = "send_multipart_file"
    /\ mp_pc = "sendall"
    /\ NextChunk
    /\ UNCHANGED <<chunk_not_sent, retries, chunk_sends>>
    /\ UNCHANGED <<call, validatorVars, trajVars, clientVars, waitVars, runVars>>

\* socket.sendall(chunk) raises BlockingIOError: the retry loop is entered
SendAllBlocked ==
    /\ call = "send_multipart_file"
    /\ mp_pc = "sendall"
    /\ mp_pc' = "retry"
    /\ chunk_not_sent' = FALSE
    /\ retries' = 0
    /\ chunk_sends' = 0
    /\ UNCHANGED chunk_idx
    /\ UNCHANGED <<call, validatorVars, trajVars, clientVars, waitVars, runVars>>

\* while not chunk_not_sent or (retries < 50)
RetryCondition == ~chunk_not_sent \/ retries < RetryLimit

\* a pass of the retry loop: socket.send(chunk) returns
RetrySend ==
    /\ call = "send_multipart_file"
    /\ mp_pc = "retry"
    /\ RetryCondition
    /\ chunk_sends < MaxSends
    /\ chunk_sends' = chunk_sends + 1
    /\ chunk_not_sent' = TRUE
    /\ UNCHANGED <<mp_pc, chunk_idx, retries>>
    /\ UNCHANGED <<call, validatorVars, trajVars, clientVars, waitVars, runVars>>

\* a pass of the retry loop: socket.send(chunk) raises BlockingIOError
RetryBlocked ==
    /\ call = "send_multipart_file"
    /\ mp_pc = "retry"
    /\ RetryCondition
    /\ retries < MaxRetries
    /\ retries' = retries + 1
    /\ UNCHANGED <<mp_pc, chunk_idx, chunk_not_sent, chunk_sends>>
    /\ UNCHANGED <<call, validatorVars, trajVars, clientVars, waitVars, runVars>>

\* a pass of the retry loop: socket.send(chunk) raises ConnectionResetError, break
RetryReset ==
    /\ call = "send_multipart_file"
    /\ mp_pc = "retry"
    /\ RetryCondition
    /\ NextChunk
    /\ UNCHANGED <<chunk_not_sent, retries, chunk_sends>>
    /\ UNCHANGED <<call, validatorVars, trajVars, clientVars, waitVars, runVars>>

\* the condition of the retry loop is false: the loop ends
LeaveRetry ==
    /\ call = "send_multipart_file"
    /\ mp_pc = "retry"
    /\ ~RetryCondition
    /\ NextChunk
    /\ UNCHANGED <<chunk_not_sent, retries, chunk_sends>>
    /\ UNCHANGED <<call, validatorVars, trajVars, clientVars, waitVars, runVars>>

InitMultipart ==
    /\ call = "send_multipart_file"
    /\ mp_pc = "sendall"
    /\ chunk_idx = 1
    /\ chunk_not_sent = FALSE
    /\ retries = 0
    /\ chunk_sends = 0
    /\ message_id = 0
    /\ connected \in BOOLEAN
    /\ request = NoRequest
    /\ ValidatorsIdle
    /\ TrajIdle
    /\ WaitIdle
    /\ RunIdle

NextMultipart ==
    \/ SendAll
    \/ SendAllBlocked
    \/ RetrySend
    \/ RetryBlocked
    \/ RetryReset
    \/ LeaveRetry

SpecMultipart == InitMultipart /\ [][NextMultipart]_vars

(***************************************************************************)
(* Properties of the retry loop                                            *)
(***************************************************************************)
\* the retry loop is at its head and goes round once more
Retrying == call = "send_multipart_file" /\ mp_pc = "retry" /\ RetryCondition

\* C26: the retry loop.  The loop goes round again only while the chunk has
\* not been sent and fewer than 50 retries have failed, and it never sends
\* the same chunk more than once.
C26_RetryLoopStops ==
    /\ Retrying => (chunk_sends = 0 /\ retries < RetryLimit)
    /\ chunk_sends <= 1

\* the loop ends by itself only after a send and 50 failed retries
LeavesAfterLimit ==
    (call = "send_multipart_file" /\ mp_pc = "retry" /\ ~RetryCondition) =>
        (chunk_sends >= 1 /\ retries >= RetryLimit)

\* the loop goes round after the chunk has been sent
RetriesAfterSend == Retrying /\ chunk_sends >= 1

\* the loop goes round after 50 failed retries
RetriesBeyondLimit == Retrying /\ retries >= RetryLimit

(***************************************************************************)
(* Running a simulation                                                    *)
(***************************************************************************)
\* a module that asks for a model, which load_user_code looks up on the server
ModelDetector ==
    Module(PyInt(3000), "Yolo", << >>, << >>, << <<"Model", PyStr("SSD")>> >>)

\* the stored settings of the simulations that are run
RunDocs ==
    AgentDocs \cup CountDocs
    \cup {d \in TopDocs : ~Has(d, "Scenario") \/ ~Has(d, "Agents")}
    \cup {Document(BaseLayout, PyInt(0), PyFloat(30000), scenario,
                   << <<"Drone1", Agent("Multirotor", SensorsWithCamera,
                                        << <<"Detector", m>> >>)>> >>) :
            scenario \in {GoodScenario, ScenarioWithGoals(<<GoodGoal>>)},
            m \in {ModelDetector, GoodDetector}}

\* the stored trajectories
RunTrajectories ==
    {PyDict(<< >>)}
    \cup {PyDict(<< <<"Trajectory", t>> >>) :
            t \in {PyList(<< >>), PyList(<<GoodPoint>>), PyList(<<WarnedPoint>>),
                   PyList(<<PyDict(<< <<"Speed", PyFloat(20001)>> >>)>>),
                   PyDict(<< <<"L1", PyList(<<GoodPoint>>)>>,
                             <<"L2", PyList(<<PyDict(<< <<"X", PyFloat(1000001)>> >>)>>)>> >>)}}

IPAddresses == {"127.0.0.1", "10.0.0.5"}

\* _determine_local_simulation, the first statement of run_simulation
DetermineLocalSimulation ==
    /\ call = "run_simulation"
    /\ run_pc = "start"
    /\ \E ip_address \in IPAddresses :
          local' = IF ip_address # "127.0.0.1" THEN "False" ELSE "True"
    /\ run_pc' = "retrieve"
    /\ UNCHANGED <<call, vp_profile, vp_result, settings_file, descriptor_found, walkVars>>
    /\ UNCHANGED <<run_op, settings_valid, network>>
    /\ UNCHANGED <<trajVars, clientVars, waitVars, multipartVars>>

\* retrieve_sim_package, then the call of validate_settings_file on the
\* stored settings
CallValidateSettings ==
    /\ call = run_op
    /\ run_pc = "retrieve"
    /\ call' = "validate_settings_file"
    /\ run_pc' = "validating"
    /\ UNCHANGED <<vp_profile, vp_result, settings_file, local, descriptor_found, walkVars>>
    /\ UNCHANGED <<run_op, settings_valid, network>>
    /\ UNCHANGED <<trajVars, clientVars, waitVars, multipartVars>>

\* validate_settings_file has returned, and the run goes on whatever it returned
SettingsValidated_NoExit ==
    /\ call = "validate_settings_file"
    /\ run_pc = "validating"
    /\ pc = "done"
    /\ call' = run_op
    /\ settings_valid' = result
    /\ run_pc' = IF run_op = "run_simulation" THEN "scenario" ELSE "connect"
    /\ UNCHANGED <<vp_profile, vp_result, settings_file, local, descriptor_found, walkVars>>
    /\ UNCHANGED <<run_op, network>>
    /\ UNCHANGED <<trajVars, clientVars, waitVars, multipartVars>>

\* validate_settings_file has returned: exit(1) unless it returned True
SettingsValidated ==
    /\ call = "validate_settings_file"
    /\ run_pc = "validating"
    /\ pc = "done"
    /\ call' = run_op
    /\ settings_valid' = result
    /\ run_pc' = IF result # "True" THEN "exited"
                 ELSE IF run_op = "run_simulation" THEN "scenario" ELSE "connect"
    /\ UNCHANGED <<vp_profile, vp_result, settings_file, local, descriptor_found, walkVars>>
    /\ UNCHANGED <<run_op, network>>
    /\ UNCHANGED <<trajVars, clientVars, waitVars, multipartVars>>

\* user_settings["Scenario"]["Name"] can be read
HasScenarioName(doc) ==
    /\ Has(doc, "Scenario")
    /\ DictGet(doc, "Scenario").t = "dict"
    /\ Has(DictGet(doc, "Scenario"), "Name")

IsDataCollection(doc) ==
    HasScenarioName(doc) /\ PyEq(DictGet(DictGet(doc, "Scenario"), "Name"),
                                 PyStr("DataCollection"))

\* run_simulation: the scenario name is read, and for DataCollection the
\* stored trajectory is validated; an exception or a trajectory that is not
\* valid ends in exit(1)
CheckTrajectory ==
    /\ call = "run_simulation"
    /\ run_pc = "scenario"
    /\ IF ~HasScenarioName(settings_file)
       THEN run_pc' = "exited" /\ UNCHANGED trajectory_valid
       ELSE IF ~IsDataCollection(settings_file)
       THEN run_pc' = "load_user_code" /\ UNCHANGED trajectory_valid
       ELSE /\ trajectory_valid' = validate_multi_level_trajectory_file(trajectory)
            /\ run_pc' = IF trajectory_valid'.ret = "True" THEN "load_user_code"
                         ELSE "exited"
    /\ UNCHANGED <<call, trajectory, validatorVars>>
    /\ UNCHANGED <<run_op, settings_valid, network>>
    /\ UNCHANGED <<clientVars, waitVars, multipartVars>>

\* the modules of the agents of the document, when load_user_code can loop over them
UserModules(doc) ==
    IF Has(doc, "Agents") /\ DictGet(doc, "Agents").t = "dict"
       /\ \A i \in 1..Len(DictGet(doc, "Agents").v) :
             LET agent_info == DictGet(doc, "Agents").v[i][2]
             IN  /\ agent_info.t = "dict"
                 /\ Has(agent_info, "SoftwareModules")
                 /\ DictGet(agent_info, "SoftwareModules").t = "dict"
    THEN [ok |-> TRUE,
          modules |-> UNION {{DictGet(DictGet(doc, "Agents").v[i][2], "SoftwareModules").v[j][2] :
                                j \in 1..Len(DictGet(DictGet(doc, "Agents").v[i][2],
                                                     "SoftwareModules").v)} :
                             i \in 1..Len(DictGet(doc, "Agents").v)}]
    ELSE [ok |-> FALSE, modules |-> {}]

\* the module lists a model
ListsModel(module) ==
    /\ module.t = "dict"
    /\ Has(module, "Parameters")
    /\ DictGet(module, "Parameters").t = "dict"
    /\ Has(DictGet(module, "Parameters"), "Model")

\* what load_user_code can send: nothing, or for a module that lists a model
\* the request for the loaded models, and the upload of the model
UserCodeTraffic(doc) ==
    {<< >>}
    \cup IF \E m \in UserModules(doc).modules : ListsModel(m)
         THEN {<<"connect", "retrieve_loaded_models">>,
               <<"connect", "retrieve_loaded_models", "connect", "send_multipart_file">>}
         ELSE {}

\* client.load_user_code: it returns the user code, or the process exits
\* (no models retrieved, or an exception)
LoadUserCode ==
    /\ call = "run_simulation"
    /\ run_pc = "load_user_code"
    /\ \E traffic \in UserCodeTraffic(settings_file) :
          /\ network' = network \o traffic
          /\ \/ UserModules(settings_file).ok /\ run_pc' = "connect"
             \/ run_pc' = "exited"
    /\ UNCHANGED <<call, validatorVars>>
    /\ UNCHANGED <<run_op, settings_valid>>
    /\ UNCHANGED <<trajVars, clientVars, waitVars, multipartVars>>

\* client.connect: the socket connects, or the process exits
RunConnect ==
    /\ call = run_op
    /\ run_pc = "connect"
    /\ \/ network' = Append(network, "connect") /\ run_pc' = "send"
       \/ network' = network /\ run_pc' = "exited"
    /\ UNCHANGED <<call, validatorVars>>
    /\ UNCHANGED <<run_op, settings_valid>>
    /\ UNCHANGED <<trajVars, clientVars, waitVars, multipartVars>>

\* client.send_simulation_execution_package and the end of the run
SendExecutionPackage ==
    /\ call = run_op
    /\ run_pc = "send"
    /\ network' = Append(network, "send_simulation_execution_package")
    /\ run_pc' \in {"returned", "exited"}
    /\ UNCHANGED <<call, validatorVars>>
    /\ UNCHANGED <<run_op, settings_valid>>
    /\ UNCHANGED <<trajVars, clientVars, waitVars, multipartVars>>

InitRun ==
    /\ run_op \in {"run_simulation", "run_view_only_simulation"}
    /\ call = run_op
    /\ run_pc = IF run_op = "run_simulation" THEN "start" ELSE "retrieve"
    /\ settings_valid = "none"
    /\ network = << >>
    /\ vp_profile = << >>
    /\ vp_result = [ret |-> "none", msg |-> "none"]
    /\ settings_file \in RunDocs
    /\ local = "unset"
    /\ descriptor_found = TRUE
    /\ WalkStart
    /\ trajectory \in RunTrajectories
    /\ trajectory_valid = [ret |-> "none", kind |-> "none", warnings |-> << >>]
    /\ ClientIdle
    /\ WaitIdle
    /\ MultipartIdle

NextRun ==
    \/ DetermineLocalSimulation
    \/ CallValidateSettings
    \/ CheckRequiredComponents
    \/ ValidateSection
    \/ EnterAgents
    \/ ReturnTrue
    \/ CheckAgentSections
    \/ LeaveAgents
    \/ ValidateAgentSectionStep
    \/ EnterSoftwareModules
    \/ LeaveAgent
    \/ ValidateModuleStep
    \/ LeaveSoftwareModules
    \/ SettingsValidated
    \/ CheckTrajectory
    \/ LoadUserCode
    \/ RunConnect
    \/ SendExecutionPackage

SpecRun == InitRun /\ [][NextRun]_vars

(***************************************************************************)
(* Properties of the runs                                                  *)
(***************************************************************************)
\* C23: validation precedes submission.  In run_simulation and
\* run_view_only_simulation something has been sent to the server only if
\* validate_settings_file has returned True for the stored settings and, in
\* run_simulation with the scenario DataCollection,
\* validate_multi_level_trajectory_file has returned True for the stored
\* trajectory.
C23_ValidationPrecedes ==
    (run_op # "none" /\ network # << >>) =>
        /\ settings_valid = "True"
        /\ pc = "done" /\ result = "True"
        /\ (run_op = "run_simulation" /\ IsDataCollection(settings_file)) =>
              /\ trajectory_valid.ret = "True"
              /\ trajectory_valid = validate_multi_level_trajectory_file(trajectory)

\* run_simulation has sent the execution package of a DataCollection scenario
\* after the upload of a model
C23_Witness ==
    /\ run_op = "run_simulation"
    /\ IsDataCollection(settings_file)
    /\ network = <<"connect", "retrieve_loaded_models", "connect", "send_multipart_file",
                   "connect", "send_simulation_execution_package">>
    /\ run_pc = "returned"

\* run_view_only_simulation has sent its package
ViewOnlySent ==
    /\ run_op = "run_view_only_simulation"
    /\ network = <<"connect", "send_simulation_execution_package">>

\* a run has exited on settings that are not valid, and one on a trajectory that is not
ExitedOnSettings == run_pc = "exited" /\ settings_valid = "False"

ExitedOnTrajectory ==
    run_pc = "exited" /\ settings_valid = "True" /\ trajectory_valid.ret = "False"

(***************************************************************************)
(* Properties of the generated documents                                   *)
(***************************************************************************)
\* C22: round trip.  Every document that generate_new_user_settings_file
\* produces from legal answers is accepted by validate_settings_file.
C22_RoundTrip ==
    (SettingsDone /\ settings_file \in GeneratedDocs) => result = "True"

\* no generated document is accepted: the walk stops at Environment, whose
\* Name the generator leaves None
GeneratedStopAtEnvironment ==
    (SettingsDone /\ settings_file \in GeneratedDocs) =>
        (result = "False" /\ diag = [kind |-> "EnvName", at |-> <<"Environment">>])

\* the agents of the generated documents do not have the sections the
\* validator requires
GeneratedAgentSectionsRefused ==
    (call = "validate_settings_file" /\ settings_file \in GeneratedDocs) =>
        \A i \in 1..Len(DictGet(settings_file, "Agents").v) :
            ValidateAgentSectionNames(DictGet(settings_file, "Agents").v[i][2])
                = "AgentSections"

=============================================================================
